---- MODULE Spec2Model ----
(***************************************************************************)
(* Model of the Modbus data exporter (src/main.py): the connection pool,   *)
(* the register cache, read_registers, the decoders, device discovery      *)
(* (get_device_ids), device profiling (collect_data), the diagnostics      *)
(* reader (read_enhanced_diagnostics), and the GUI's export and live       *)
(* diagnostics worker threads.                                             *)
(*                                                                         *)
(* Conventions.  A string produced by a decoder is a sequence of character *)
(* codes (chr(n) is n); string literals of the code that are only compared *)
(* or stored (device types, status texts) are TLA+ strings.  The return    *)
(* value of read_registers is a record [ok, regs]: ok = FALSE is None.     *)
(***************************************************************************)
EXTENDS Integers, Sequences, FiniteSets, TLC

\* ------------------------------------------------------------------ bounds
\* Number of discovery slots scanned; the source scans range(100), the model
\* scans MaxDevices slots with the same base and stride.
MaxDevices == 3
\* Number of worker threads (export or live) the GUI starts in one behaviour.
MaxThreads == 2
\* Iterations of the one-second wait loop between two live passes; the source
\* waits range(30).
SleepIters == 2
\* Number of times the clock advances, by half the cache's time to live each.
MaxTicks == 2

\* ------------------------------------------------------- program constants
GatewayUnit == 255
Base == 504
Step == 5
PoolMaxConnections == 5
CacheMaxSize == 100
CacheTtl == 300

Min(S) == CHOOSE x \in S : \A y \in S : x <= y
Max(S) == CHOOSE x \in S : \A y \in S : x >= y

\* None, the failure value of read_registers
None == [ok |-> FALSE, regs |-> <<>>]
Some(regs) == [ok |-> TRUE, regs |-> regs]
\* Python truthiness of a read_registers result: None and [] are falsy
Truthy(r) == r.ok /\ Len(r.regs) > 0

\* ---------------------------------------------------------------- decoders
\* str.strip() with no argument removes these code points (below 256)
Whitespace == {9, 10, 11, 12, 13, 28, 29, 30, 31, 32, 133, 160}

\* chr((reg >> 8) & 0xFF) + chr(reg & 0xFF) for reg in registers
RegBytes(regs) ==
    [k \in 1..(2 * Len(regs)) |->
        IF k % 2 = 1 THEN (regs[(k + 1) \div 2] \div 256) % 256
                     ELSE regs[k \div 2] % 256]

\* s.split("\x00")[0]
SplitNul(s) ==
    LET nul == {k \in 1..Len(s) : s[k] = 0}
    IN  IF nul = {} THEN s ELSE SubSeq(s, 1, Min(nul) - 1)

\* s.strip()
Strip(s) ==
    LET keep == {k \in 1..Len(s) : s[k] \notin Whitespace}
    IN  IF keep = {} THEN <<>> ELSE SubSeq(s, Min(keep), Max(keep))

\* a decoder that strips the whitespace before it cuts at the first NUL
decode_ascii_tupleStripFirst(regs) == SplitNul(Strip(RegBytes(regs)))

decode_ascii_tuple(regs) == Strip(SplitNul(RegBytes(regs)))

decode_ascii_cached(regs) ==
    IF Len(regs) > 0 THEN decode_ascii_tuple(regs) ELSE <<>>

\* f"{reg:04X}": four uppercase hexadecimal digits
HexDigit(d) == IF d < 10 THEN 48 + d ELSE 55 + d
Hex04(reg) ==
    << HexDigit((reg \div 4096) % 16), HexDigit((reg \div 256) % 16),
       HexDigit((reg \div 16) % 16), HexDigit(reg % 16) >>

RECURSIVE JoinHex(_)
\* "".join(f"{reg:04X}" for reg in regs if reg > 0)
JoinHex(regs) ==
    IF regs = <<>> THEN <<>>
    ELSE (IF Head(regs) > 0 THEN Hex04(Head(regs)) ELSE <<>>) \o JoinHex(Tail(regs))

\* hex_str[:8]
RfidHex(regs) ==
    LET h == JoinHex(regs) IN SubSeq(h, 1, IF Len(h) < 8 THEN Len(h) ELSE 8)

\* A diagnostics value: k is "int", "float", "na" ("N/A"), "none" (None) or
\* "str"; a float is kept as the hundredths n of round(x, 2), with s naming
\* the non-finite and out-of-range cases.
IntVal(n) == [k |-> "int", n |-> n, s |-> ""]
FloatVal(n, s) == [k |-> "float", n |-> n, s |-> s]
NA == [k |-> "na", n |-> 0, s |-> "N/A"]
NoneVal == [k |-> "none", n |-> 0, s |-> ""]
StrVal(s) == [k |-> "str", n |-> 0, s |-> s]

RECURSIVE Pow2(_)
Pow2(n) == IF n = 0 THEN 1 ELSE 2 * Pow2(n - 1)

\* round-half-even of the non-negative fraction a / b
RoundHalfEven(a, b) ==
    LET q == a \div b
        r == a % b
    IN  IF 2 * r > b \/ (2 * r = b /\ q % 2 = 1) THEN q + 1 ELSE q

\* round(struct.unpack('!f', struct.pack('!I', (w0 << 16) | w1))[0], 2) for a
\* two-word list: sign, 8-bit exponent, 23-bit mantissa of IEEE-754 binary32.
RoundFloat32(w0, w1) ==
    LET sign == IF w0 \div 32768 = 1 THEN -1 ELSE 1
        e == (w0 \div 128) % 256
        m == (w0 % 128) * 65536 + w1
        M == 8388608 + m
        sh == 150 - e
    IN  IF e = 255 THEN FloatVal(sign, IF m = 0 THEN "inf" ELSE "nan")
        ELSE IF e = 0 THEN FloatVal(0, "")
        ELSE IF sh <= 0 THEN FloatVal(sign, "big")
        ELSE IF sh >= 32 THEN FloatVal(0, "")
        ELSE IF sh = 31 THEN FloatVal(IF M * 100 > 1073741824 THEN sign ELSE 0, "")
        ELSE FloatVal(sign * RoundHalfEven(M * 100, Pow2(sh)), "")

\* decode_float32 returns None unless exactly two registers are given
decode_float32_ok(regs) == Len(regs) = 2

\* float(v) as hundredths, for the comparisons of get_signal_quality; the
\* infinities and the floats beyond 2^24 compare as a huge value of their sign
Num(v) ==
    IF v.k = "int" THEN v.n * 100
    ELSE IF v.s = "" THEN v.n
    ELSE v.n * 2000000000

\* float(v) raises ValueError for "N/A" (caught: "Unknown")
IsNumeric(v) == v.k \in {"int", "float"}

\* a matrix whose middle row starts at PER = 10
get_signal_qualityFromTen(lqi, per) ==
    IF lqi.k = "none" \/ per.k = "none" THEN "Unknown"
    ELSE IF ~IsNumeric(lqi) \/ ~IsNumeric(per) THEN "Unknown"
    ELSE IF lqi.s = "nan" \/ per.s = "nan" THEN "Unknown"
    ELSE IF Num(per) > 3000 THEN (IF Num(lqi) < 6000 THEN "Weak" ELSE "Fair")
    ELSE IF Num(per) >= 1000 THEN
            (IF Num(lqi) < 3000 THEN "Weak"
             ELSE IF Num(lqi) < 6000 THEN "Fair" ELSE "Good")
    ELSE    (IF Num(lqi) < 3000 THEN "Fair"
             ELSE IF Num(lqi) < 6000 THEN "Good" ELSE "Excellent")

get_signal_quality(lqi, per) ==
    IF lqi.k = "none" \/ per.k = "none" THEN "Unknown"
    ELSE IF ~IsNumeric(lqi) \/ ~IsNumeric(per) THEN "Unknown"
    ELSE IF lqi.s = "nan" \/ per.s = "nan" THEN "Unknown"
    ELSE IF Num(per) > 3000 THEN
            (IF Num(lqi) < 3000 THEN "Weak"
             ELSE IF Num(lqi) < 6000 THEN "Weak" ELSE "Fair")
    ELSE IF Num(per) > 1000 THEN
            (IF Num(lqi) < 3000 THEN "Weak"
             ELSE IF Num(lqi) < 6000 THEN "Fair" ELSE "Good")
    ELSE    (IF Num(lqi) < 3000 THEN "Fair"
             ELSE IF Num(lqi) < 6000 THEN "Good" ELSE "Excellent")

\* ------------------------------------------------------ diagnostic plan
Field(addr, count, name, type) ==
    [addr |-> addr, count |-> count, name |-> name, type |-> type]

CommonRegisters ==
    << Field(31144, 1, "RF Communication Validity", "BITMAP"),
       Field(31145, 1, "Communication Status", "BITMAP"),
       Field(31151, 2, "Gateway PER", "Float32"),
       Field(31153, 2, "RSSI", "Float32"),
       Field(31155, 1, "LQI", "UINT16"),
       Field(31156, 2, "PER Max", "Float32"),
       Field(31158, 2, "RSSI Min", "Float32"),
       Field(31160, 1, "LQI Min", "UINT16") >>

\* a plan that reads the battery voltage of every device
EnhancedRegistersWithBattery(device_type) ==
    IF device_type = "HeatTag" THEN
        CommonRegisters \o
        << Field(3321, 1, "HeatTag Alarm Type", "UINT16"),
           Field(3322, 1, "HeatTag Alarm Level", "UINT16"),
           Field(31175, 1, "HeatTag Operation Mode", "UINT16") >>
    ELSE Append(CommonRegisters, Field(3315, 2, "Battery Voltage", "Float32"))

\* enhanced_registers of read_enhanced_diagnostics for a device type
EnhancedRegisters(device_type) ==
    IF device_type = "CL110" THEN
        Append(CommonRegisters, Field(3315, 2, "Battery Voltage", "Float32"))
    ELSE IF device_type = "HeatTag" THEN
        CommonRegisters \o
        << Field(3321, 1, "HeatTag Alarm Type", "UINT16"),
           Field(3322, 1, "HeatTag Alarm Level", "UINT16"),
           Field(31175, 1, "HeatTag Operation Mode", "UINT16") >>
    ELSE CommonRegisters

\* the value stored for a field whose read returned a truthy list; the
\* Float32 case is defined only when decode_float32 does not return None
FieldValue(type, regs) ==
    IF type = "Float32" THEN RoundFloat32(regs[1], regs[2])
    ELSE IF type \in {"UINT16", "BITMAP"} THEN IntVal(regs[1])
    ELSE NoneVal

\* round(None, 2) raises TypeError
FieldRaises(type, regs) == type = "Float32" /\ ~decode_float32_ok(regs)

\* lqi_value = diagnostics.get("LQI") etc.
DictGet(d, key) == IF key \in DOMAIN d THEN d[key] ELSE NoneVal

\* a signal quality that takes a missing input as 0
WithSignalQualityDefaulting(d) ==
    LET in(key) == IF DictGet(d, key).k \in {"na", "none"} THEN IntVal(0)
                   ELSE DictGet(d, key)
    IN  ("Signal Quality" :> StrVal(get_signal_quality(in("LQI"), in("Gateway PER"))))
        @@ d

WithSignalQuality(d) ==
    ("Signal Quality" :>
        StrVal(get_signal_quality(DictGet(d, "LQI"), DictGet(d, "Gateway PER"))))
    @@ d

\* the empty dict
EmptyDict == [x \in {} |-> NoneVal]

\* ------------------------------------------------- human-readable decoders
\* a formatted text such as "Unknown (7)": the word and the number in it
FmtVal(s, n) == [k |-> "str", n |-> n, s |-> s]

\* int(value): the integer, or "invalid" for the ValueError / TypeError the
\* decoders catch, or "raise" for the OverflowError of an infinity
ParseInt(v) ==
    IF v.k = "int" THEN [r |-> "int", n |-> v.n]
    ELSE IF v.k = "float" /\ v.s = "" THEN
        [r |-> "int", n |-> IF v.n >= 0 THEN v.n \div 100 ELSE -((-v.n) \div 100)]
    ELSE IF v.k = "float" /\ v.s = "big" THEN [r |-> "int", n |-> v.n * 2000000000]
    ELSE IF v.k = "float" /\ v.s = "inf" THEN [r |-> "raise", n |-> 0]
    ELSE [r |-> "invalid", n |-> 0]

\* the frame shared by the five decoders: None and "N/A" give "N/A", a value
\* int() rejects gives "Invalid (value)"
Decoded(value, text) ==
    LET p == ParseInt(value)
    IN  IF value.k \in {"none", "na"} THEN StrVal("N/A")
        ELSE IF p.r = "raise" THEN [k |-> "raise", n |-> 0, s |-> "OverflowError"]
        ELSE IF p.r = "invalid" THEN FmtVal("Invalid", 0)
        ELSE text

\* a decoder that tests the range 94..190 before the value 99
decode_heattag_alarm_typeRangeFirst(value) ==
    LET val == ParseInt(value).n
    IN  Decoded(value,
            IF val = 0 THEN StrVal("No alarm")
            ELSE IF 1 <= val /\ val <= 15 THEN StrVal("Low level alarm")
            ELSE IF 16 <= val /\ val <= 93 THEN StrVal("Medium level alarm")
            ELSE IF 94 <= val /\ val <= 190 THEN StrVal("High level alarm")
            ELSE IF val = 99 THEN StrVal("Test alarm")
            ELSE FmtVal("Unknown", val))

decode_heattag_alarm_type(value) ==
    LET val == ParseInt(value).n
    IN  Decoded(value,
            IF val = 0 THEN StrVal("No alarm")
            ELSE IF 1 <= val /\ val <= 15 THEN StrVal("Low level alarm")
            ELSE IF 16 <= val /\ val <= 93 THEN StrVal("Medium level alarm")
            ELSE IF val = 99 THEN StrVal("Test alarm")
            ELSE IF 94 <= val /\ val <= 190 THEN StrVal("High level alarm")
            ELSE FmtVal("Unknown", val))

decode_heattag_alarm_level(value) ==
    LET val == ParseInt(value).n
    IN  Decoded(value,
            IF val = 0 THEN StrVal("No alarm")
            ELSE IF val = 1 THEN StrVal("Low level alarm")
            ELSE IF val = 2 THEN StrVal("Medium level alarm")
            ELSE IF val = 3 THEN StrVal("High level alarm")
            ELSE FmtVal("Unknown", val))

decode_heattag_operation_mode(value) ==
    LET val == ParseInt(value).n
    IN  Decoded(value,
            IF val = 0 THEN StrVal("Test mode (0-30 min after power on)")
            ELSE IF val = 1
            THEN StrVal("Auto-learning mode (30 min-8 hrs after power on)")
            ELSE IF val = 2
            THEN StrVal("Normal operation mode (>8 hrs after power on)")
            ELSE FmtVal("Unknown", val))

decode_communication_status(value) ==
    LET val == ParseInt(value).n
    IN  Decoded(value,
            IF val = 0 THEN StrVal("Com. loss")
            ELSE IF val = 1 THEN StrVal("OK")
            ELSE FmtVal("Unknown", val))

decode_rf_communication_validity(value) ==
    LET val == ParseInt(value).n
    IN  Decoded(value,
            IF val = 0 THEN StrVal("Invalid")
            ELSE IF val = 1 THEN StrVal("Valid")
            ELSE FmtVal("Unknown", val))

\* ------------------------------------------------------------ export file
\* common_fields and device_specific_fields["HeatTag"] of flatten_diagnostics
common_fields ==
    << "Battery Voltage", "RF Communication Validity", "Communication Status",
       "Gateway PER", "RSSI", "LQI", "PER Max", "RSSI Min", "LQI Min",
       "Signal Quality" >>
HeatTagFields ==
    << "HeatTag Alarm Type", "HeatTag Alarm Level", "HeatTag Operation Mode" >>

\* the identity columns every header starts with
IdentityFields ==
    << "DeviceID", "DeviceType", "RFID", "SerialNumber", "DeviceName",
       "DeviceLabel" >>

Range(seq) == {seq[k] : k \in 1..Len(seq)}

\* the value flatten_diagnostics stores for a field of a device
FlatValue(field, value) ==
    CASE field = "Communication Status" -> decode_communication_status(value)
      [] field = "RF Communication Validity" -> decode_rf_communication_validity(value)
      [] field = "HeatTag Alarm Type" -> decode_heattag_alarm_type(value)
      [] field = "HeatTag Alarm Level" -> decode_heattag_alarm_level(value)
      [] field = "HeatTag Operation Mode" -> decode_heattag_operation_mode(value)
      [] OTHER -> value

\* the diagnostic keys of flat_device: the common fields the device has, and
\* the HeatTag fields a HeatTag device has
FlatFields(device) ==
    {f \in Range(common_fields) : f \in DOMAIN device.EnhancedDiagnostics}
    \cup (IF device.DeviceType = "HeatTag"
          THEN {f \in Range(HeatTagFields) : f \in DOMAIN device.EnhancedDiagnostics}
          ELSE {})

\* flatten_diagnostics: the ordered extra headers, and per device its flat
\* diagnostic values
flatten_diagnostics(data) ==
    LET all_headers == UNION {FlatFields(data[k]) : k \in 1..Len(data)}
        InAll(f) == f \in all_headers
    IN  [ordered_headers |->
             SelectSeq(common_fields, InAll) \o SelectSeq(HeatTagFields, InAll),
         flattened_data |->
             [k \in 1..Len(data) |->
                 [f \in FlatFields(data[k]) |->
                     FlatValue(f, data[k].EnhancedDiagnostics[f])]]]

\* a file whose rows show "N/A" in the columns their device does not have
SavedFileFillingNA(data) ==
    LET flat == flatten_diagnostics(data)
    IN  [fieldnames |-> IdentityFields \o flat.ordered_headers,
         rows |->
             [k \in 1..Len(data) |->
                 [DeviceID |-> data[k].DeviceID,
                  DeviceType |-> data[k].DeviceType,
                  RFID |-> data[k].RFID,
                  SerialNumber |-> data[k].SerialNumber,
                  DeviceName |-> data[k].DeviceName,
                  DeviceLabel |-> data[k].DeviceLabel,
                  cells |->
                      [h \in Range(flat.ordered_headers) |->
                          IF h \in DOMAIN flat.flattened_data[k]
                          THEN flat.flattened_data[k][h] ELSE StrVal("N/A")]]]]

\* the file written by _save_original_data_with_base: the header, and per
\* device its identity cells and row.get(k, "") for every extra column
SavedFile(data) ==
    LET flat == flatten_diagnostics(data)
    IN  [fieldnames |-> IdentityFields \o flat.ordered_headers,
         rows |->
             [k \in 1..Len(data) |->
                 [DeviceID |-> data[k].DeviceID,
                  DeviceType |-> data[k].DeviceType,
                  RFID |-> data[k].RFID,
                  SerialNumber |-> data[k].SerialNumber,
                  DeviceName |-> data[k].DeviceName,
                  DeviceLabel |-> data[k].DeviceLabel,
                  cells |->
                      [h \in Range(flat.ordered_headers) |->
                          IF h \in DOMAIN flat.flattened_data[k]
                          THEN flat.flattened_data[k][h] ELSE StrVal("")]]]]

\* no file written
NoFile == [fieldnames |-> <<>>, rows |-> <<>>]

\* -------------------------------------------------------- classification
\* character codes of the three known commercial references
EMS59443 == <<69, 77, 83, 53, 57, 52, 52, 51>>
EMS59440 == <<69, 77, 83, 53, 57, 52, 52, 48>>
SMT10020 == <<83, 77, 84, 49, 48, 48, 50, 48>>

DeviceTypeOf(ref) ==
    IF ref = EMS59443 THEN "CL110"
    ELSE IF ref = EMS59440 THEN "TH110"
    ELSE IF ref = SMT10020 THEN "HeatTag"
    ELSE "Unknown"

\* a classification by the first seven characters and the last digit
LiveDeviceTypeOfByPrefix(ref) ==
    IF Len(ref) = 8 /\ SubSeq(ref, 1, 7) = SubSeq(EMS59443, 1, 7)
    THEN (IF ref[8] = 51 THEN "CL110" ELSE "TH110")
    ELSE IF ref = SMT10020 THEN "HeatTag"
    ELSE "Unknown"

\* the classification of the live path (its own copy of the comparison)
LiveDeviceTypeOf(ref) ==
    IF ref = EMS59443 THEN "CL110"
    ELSE IF ref = EMS59440 THEN "TH110"
    ELSE IF ref = SMT10020 THEN "HeatTag"
    ELSE "Unknown"

\* the guard of the export path before read_enhanced_diagnostics
ExportReadsDiagnostics(enhanced, device_type) ==
    enhanced /\ device_type \in {"TH110", "CL110", "HeatTag"}

\* the live path calls read_enhanced_diagnostics for every device
LiveReadsDiagnostics(device_type) == TRUE

\* result[0] not in (0, 0xFFFF), for a truthy result
ValidDeviceId(r) == Truthy(r) /\ r.regs[1] \notin {0, 65535}

\* addr = base + (i * step)
SlotAddr(i) == Base + (i * Step)

\* ------------------------------------------------------------------ state
VARIABLES
    gw,                 \* environment: per gateway IP, what its registers answer
    reachable,          \* environment: the IPs whose connect() succeeds
    now,                \* environment: time.time(), in seconds
    connection_pool,    \* the global ConnectionPool: [pool, max_connections]
    clients,            \* the ModbusClient objects created so far
    data_cache,         \* the global DataCache: [cache, max_size, ttl]
    ip_entry,           \* GUI: the IP address field
    enhanced_diagnostics_var,   \* GUI: the "enhanced diagnostics" checkbox
    is_running,         \* GUI: export running flag
    start_btn,          \* GUI: state of the start button
    live_diagnostics_enabled,   \* GUI: live diagnostics flag
    live_table,         \* GUI: rows of the live diagnostics table
    root,               \* GUI: "alive", "closing" (destroy scheduled), "destroyed"
    th                  \* the worker threads: locals and position of each

vars == << gw, reachable, now, connection_pool, clients, data_cache, ip_entry,
           enhanced_diagnostics_var, is_running, start_btn,
           live_diagnostics_enabled, live_table, root, th >>

envVars == << gw, reachable, now >>
guiVars == << ip_entry, enhanced_diagnostics_var, is_running, start_btn,
              live_diagnostics_enabled, live_table, root >>

Threads == 1..MaxThreads

\* ------------------------------------------------------------ environment
\* What the gateway at ip answers to read_holding_registers(addr, count,
\* slave=unit): the word list, or None for an error response or an exception.
IsSlot(g, unit, addr) ==
    /\ unit = GatewayUnit
    /\ \E i \in 0..(Len(g.slots) - 1) : addr = SlotAddr(i)

GwRead(g, unit, addr) ==
    IF IsSlot(g, unit, addr) THEN g.slots[((addr - Base) \div Step) + 1]
    ELSE IF unit \in DOMAIN g.dev /\ addr \in DOMAIN g.dev[unit] THEN g.dev[unit][addr]
    ELSE None

\* ------------------------------------------------------------- DataCache
CacheKey(ip, device_id, register, count) == <<ip, device_id, register, count>>

CacheIndex(cache, key) ==
    LET hits == {k \in 1..Len(cache) : cache[k].key = key}
    IN  IF hits = {} THEN 0 ELSE Min(hits)

RemoveAt(seq, k) == SubSeq(seq, 1, k - 1) \o SubSeq(seq, k + 1, Len(seq))

\* time.time() - timestamp < self.ttl
CacheFresh(entry, dc, t) == t - entry.ts < dc.ttl

\* a cache that returns an entry without its last word
CacheGetLosingWord(dc, key, t) ==
    LET k == CacheIndex(dc.cache, key)
        data == IF k = 0 THEN <<>> ELSE dc.cache[k].data
    IN  IF k = 0 THEN [hit |-> FALSE, data |-> <<>>, dc |-> dc]
        ELSE IF CacheFresh(dc.cache[k], dc, t)
             THEN [hit |-> TRUE,
                   data |-> IF data = <<>> THEN data ELSE SubSeq(data, 1, Len(data) - 1),
                   dc |-> [dc EXCEPT !.cache = Append(RemoveAt(@, k), dc.cache[k])]]
             ELSE [hit |-> FALSE, data |-> <<>>,
                   dc |-> [dc EXCEPT !.cache = RemoveAt(@, k)]]

\* DataCache.get: [hit, data, dc], dc the cache object afterwards
CacheGet(dc, key, t) ==
    LET k == CacheIndex(dc.cache, key)
    IN  IF k = 0 THEN [hit |-> FALSE, data |-> <<>>, dc |-> dc]
        ELSE IF CacheFresh(dc.cache[k], dc, t)
             THEN [hit |-> TRUE, data |-> dc.cache[k].data,
                   dc |-> [dc EXCEPT !.cache = Append(RemoveAt(@, k), dc.cache[k])]]
             ELSE [hit |-> FALSE, data |-> <<>>,
                   dc |-> [dc EXCEPT !.cache = RemoveAt(@, k)]]

\* a cache that stores without removing the oldest entry
CacheSetKeepingAll(dc, key, data, t) ==
    LET k == CacheIndex(dc.cache, key)
        entry == [key |-> key, data |-> data, ts |-> t]
    IN  [dc EXCEPT !.cache = IF k = 0 THEN Append(dc.cache, entry)
                                       ELSE [dc.cache EXCEPT ![k] = entry]]

\* DataCache.clear
CacheClear(dc) == [dc EXCEPT !.cache = <<>>]

\* DataCache.set
CacheSet(dc, key, data, t) ==
    LET popped == IF Len(dc.cache) >= dc.max_size THEN Tail(dc.cache) ELSE dc.cache
        k == CacheIndex(popped, key)
        entry == [key |-> key, data |-> data, ts |-> t]
    IN  [dc EXCEPT !.cache = IF k = 0 THEN Append(popped, entry)
                                       ELSE [popped EXCEPT ![k] = entry]]

\* -------------------------------------------------------- ConnectionPool
\* the identity of a newly created client object
NewId(cl) == Min({k \in 1..(Cardinality(DOMAIN cl) + 1) : k \notin DOMAIN cl})

NewClient(ip, cached_ip) == [ip |-> ip, cached_ip |-> cached_ip, open |-> TRUE]

\* hasattr(client, 'is_socket_open') and client.is_socket_open()
PoolHasOpen(cp, cl, ip) == ip \in DOMAIN cp.pool /\ cl[cp.pool[ip]].open

\* the pool after "del self.pool[key]" of an invalid connection
PoolPruned(cp, cl, ip) ==
    IF ip \in DOMAIN cp.pool /\ ~cl[cp.pool[ip]].open
    THEN [cp EXCEPT !.pool = [k \in (DOMAIN @) \ {ip} |-> @[k]]]
    ELSE cp

\* len(self.pool) < self.max_connections
PoolHasRoom(cp) == Cardinality(DOMAIN cp.pool) < cp.max_connections

\* ConnectionPool.get_connection(ip), with connect() succeeding iff up:
\* [client, cp, cl]; client 0 is None
get_connection(cp, cl, ip, up) ==
    IF PoolHasOpen(cp, cl, ip) THEN [client |-> cp.pool[ip], cp |-> cp, cl |-> cl]
    ELSE LET pruned == PoolPruned(cp, cl, ip)
         IN  IF PoolHasRoom(pruned) /\ up
             THEN [client |-> NewId(cl),
                   cp |-> [pruned EXCEPT !.pool = (ip :> NewId(cl)) @@ @],
                   cl |-> (NewId(cl) :> NewClient(ip, ip)) @@ cl]
             ELSE [client |-> 0, cp |-> pruned, cl |-> cl]

\* ---------------------------------------------------------------- threads
\* "Unknown", the default of the live path for a failed name or serial read
StrUnknown == <<85, 110, 107, 110, 111, 119, 110>>

\* device_data as created at the top of the device loop
BlankDevice(device_id) ==
    [DeviceID |-> device_id, DeviceType |-> "", RFID |-> <<>>,
     SerialNumber |-> <<>>, DeviceName |-> <<>>, DeviceLabel |-> <<>>,
     EnhancedDiagnostics |-> EmptyDict]

\* a thread that was not started yet
IdleThread ==
    [kind |-> "none", pc |-> "idle", ip |-> "", client |-> 0,
     inflight |-> FALSE, i |-> 0, device_ids |-> <<>>, idx |-> 0,
     device_type |-> "", device_data |-> BlankDevice(0),
     diagnostics |-> EmptyDict, j |-> 0, data |-> <<>>, ret |-> "unset",
     reported |-> "", slept |-> 0, file |-> NoFile]

\* the positions at which a thread calls read_registers
ReadPcs == {"scan", "ref", "rfid", "sn", "name", "label", "diag", "pm"}

CurDevice(s) == s.device_ids[s.idx]
CurField(s) == EnhancedRegisters(s.device_type)[s.j]

\* the arguments (device_id, address, count) of the read_registers call at
\* the thread's position
Req(s) ==
    CASE s.pc = "scan"  -> [unit |-> GatewayUnit, addr |-> SlotAddr(s.i), count |-> 1]
      [] s.pc = "ref"   -> [unit |-> CurDevice(s), addr |-> 31060, count |-> 16]
      [] s.pc = "rfid"  -> [unit |-> CurDevice(s), addr |-> 31026, count |-> 6]
      [] s.pc = "sn"    -> [unit |-> CurDevice(s), addr |-> 31088, count |-> 10]
      [] s.pc = "name"  -> [unit |-> CurDevice(s), addr |-> 31000, count |-> 10]
      [] s.pc = "label" -> [unit |-> CurDevice(s), addr |-> 31010, count |-> 3]
      [] s.pc = "pm"    -> [unit |-> CurDevice(s), addr |-> 31106, count |-> 8]
      [] s.pc = "diag"  -> [unit |-> CurDevice(s), addr |-> CurField(s).addr,
                            count |-> CurField(s).count]

\* where collect_data / _collect_live_diagnostics_data return to
ReturnPc(kind) == IF kind = "export" THEN "report" ELSE "ltable"

\* a scan that gives up at the first failed slot
ScanNextIndexStopsOnError(i, r) == IF r.ok THEN i + 1 ELSE MaxDevices

\* for i in range(max_devices): the next slot index after a slot's read
ScanNextIndex(i, r) == i + 1

\* the exception of round(None, 2) leaves the collecting function
Raise(s) == [s EXCEPT !.ret = "raise", !.pc = ReturnPc(s.kind)]

\* data.append(device_data), then the next device or the return of the list
AppendDevice(s) ==
    LET data == Append(s.data, s.device_data)
    IN  IF s.idx < Len(s.device_ids)
        THEN [s EXCEPT !.data = data, !.idx = s.idx + 1,
                       !.device_data = BlankDevice(s.device_ids[s.idx + 1]),
                       !.device_type = "", !.diagnostics = EmptyDict, !.j = 0,
                       !.pc = "ref"]
        ELSE [s EXCEPT !.data = data, !.ret = "data", !.pc = ReturnPc(s.kind)]

\* a scan that hands the first device it finds to the profiler at once
AfterScanEager(s, r) ==
    LET ids == IF ValidDeviceId(r) THEN Append(s.device_ids, r.regs[1])
               ELSE s.device_ids
        i == ScanNextIndex(s.i, r)
    IN  IF i < MaxDevices /\ ids = <<>> THEN [s EXCEPT !.device_ids = ids, !.i = i]
        ELSE IF ids = <<>>
        THEN [s EXCEPT !.device_ids = ids, !.i = i, !.ret = "None",
                       !.pc = ReturnPc(s.kind)]
        ELSE [s EXCEPT !.device_ids = ids, !.i = i, !.idx = 1,
                       !.device_data = BlankDevice(ids[1]), !.pc = "ref"]

\* get_device_ids: one iteration of the slot loop with read result r, and the
\* caller's "if not device_ids" after the last one
AfterScan(s, r) ==
    LET ids == IF ValidDeviceId(r) THEN Append(s.device_ids, r.regs[1])
               ELSE s.device_ids
        i == ScanNextIndex(s.i, r)
    IN  IF i < MaxDevices THEN [s EXCEPT !.device_ids = ids, !.i = i]
        ELSE IF ids = <<>>
        THEN [s EXCEPT !.device_ids = ids, !.i = i, !.ret = "None",
                       !.pc = ReturnPc(s.kind)]
        ELSE [s EXCEPT !.device_ids = ids, !.i = i, !.idx = 1,
                       !.device_data = BlankDevice(ids[1]), !.pc = "ref"]

\* Commercial Reference and the classification
AfterRef(s, r) ==
    LET ref == IF Truthy(r) THEN decode_ascii_cached(r.regs) ELSE <<>>
        device_type == IF s.kind = "export" THEN DeviceTypeOf(ref)
                       ELSE LiveDeviceTypeOf(ref)
    IN  [s EXCEPT !.device_type = device_type,
                  !.device_data.DeviceType = device_type,
                  !.pc = IF s.kind = "export" THEN "rfid" ELSE "name"]

\* a profile that gives the device up when its RFID read fails
AfterRfidAborts(s, r) ==
    IF Truthy(r) THEN [s EXCEPT !.device_data.RFID = RfidHex(r.regs), !.pc = "sn"]
    ELSE Raise(s)

\* RFID: set on a successful read only
AfterRfid(s, r) ==
    [s EXCEPT !.device_data.RFID = IF Truthy(r) THEN RfidHex(r.regs) ELSE @,
              !.pc = "sn"]

\* read_enhanced_diagnostics starts: diagnostics = {}
StartDiag(s) == [s EXCEPT !.diagnostics = EmptyDict, !.j = 1, !.pc = "diag"]

AfterSn(s, r) ==
    IF s.kind = "export"
    THEN [s EXCEPT !.device_data.SerialNumber =
                        IF Truthy(r) THEN decode_ascii_cached(r.regs) ELSE @,
                   !.pc = "name"]
    ELSE LET s1 == [s EXCEPT !.device_data.SerialNumber =
                        IF Truthy(r) THEN decode_ascii_cached(r.regs)
                        ELSE StrUnknown]
         IN  IF LiveReadsDiagnostics(s.device_type) THEN StartDiag(s1)
             ELSE AppendDevice(s1)

AfterName(s, r) ==
    IF s.kind = "export"
    THEN [s EXCEPT !.device_data.DeviceName =
                        IF Truthy(r) THEN decode_ascii_cached(r.regs) ELSE <<>>,
                   !.pc = "label"]
    ELSE [s EXCEPT !.device_data.DeviceName =
                        IF Truthy(r) THEN decode_ascii_cached(r.regs)
                        ELSE StrUnknown,
                   !.pc = "rfid"]

\* Device Label, then the guard of the enhanced diagnostics (export path)
AfterLabel(s, r, enhanced) ==
    LET s1 == [s EXCEPT !.device_data.DeviceLabel =
                        IF Truthy(r) THEN decode_ascii_cached(r.regs) ELSE <<>>]
    IN  IF ExportReadsDiagnostics(enhanced, s.device_type) THEN StartDiag(s1)
        ELSE [s1 EXCEPT !.device_data.EnhancedDiagnostics = EmptyDict, !.pc = "pm"]

\* a field loop that leaves out the key of a failed read
AfterDiagOmits(s, r) ==
    LET f == CurField(s)
        d == IF Truthy(r) THEN (f.name :> FieldValue(f.type, r.regs)) @@ s.diagnostics
             ELSE s.diagnostics
        full == WithSignalQuality(d)
    IN  IF Truthy(r) /\ FieldRaises(f.type, r.regs) THEN Raise(s)
        ELSE IF s.j < Len(EnhancedRegisters(s.device_type))
        THEN [s EXCEPT !.diagnostics = d, !.j = s.j + 1]
        ELSE LET s1 == [s EXCEPT !.diagnostics = full,
                                 !.device_data.EnhancedDiagnostics = full]
             IN  IF s.kind = "export" THEN [s1 EXCEPT !.pc = "pm"]
                 ELSE AppendDevice(s1)

\* read_enhanced_diagnostics: one iteration of the field loop, and the signal
\* quality and the return after the last one
AfterDiag(s, r) ==
    LET f == CurField(s)
        d == (f.name :> (IF Truthy(r) THEN FieldValue(f.type, r.regs) ELSE NA))
             @@ s.diagnostics
        full == WithSignalQuality(d)
    IN  IF Truthy(r) /\ FieldRaises(f.type, r.regs) THEN Raise(s)
        ELSE IF s.j < Len(EnhancedRegisters(s.device_type))
        THEN [s EXCEPT !.diagnostics = d, !.j = s.j + 1]
        ELSE LET s1 == [s EXCEPT !.diagnostics = full,
                                 !.device_data.EnhancedDiagnostics = full]
             IN  IF s.kind = "export" THEN [s1 EXCEPT !.pc = "pm"]
                 ELSE AppendDevice(s1)

\* Product Model is read and only logged
AfterPm(s, r) == AppendDevice(s)

\* the thread after read_registers returned r at its position
After(s, r, enhanced) ==
    CASE s.pc = "scan"  -> AfterScan(s, r)
      [] s.pc = "ref"   -> AfterRef(s, r)
      [] s.pc = "rfid"  -> AfterRfid(s, r)
      [] s.pc = "sn"    -> AfterSn(s, r)
      [] s.pc = "name"  -> AfterName(s, r)
      [] s.pc = "label" -> AfterLabel(s, r, enhanced)
      [] s.pc = "diag"  -> AfterDiag(s, r)
      [] s.pc = "pm"    -> AfterPm(s, r)

\* client.close() before the collecting function returns None or the list
Closes(s) == s.ret \in {"None", "data"}

CloseClient(cl, c) == [cl EXCEPT ![c].open = FALSE]

\* a client object no thread and no pool entry refers to any more is dropped
Referenced(cp, threads) ==
    {cp.pool[k] : k \in DOMAIN cp.pool} \cup {threads[t].client : t \in Threads}
Collect(cl, cp, threads) ==
    [c \in (DOMAIN cl) \cap Referenced(cp, threads) |-> cl[c]]

\* ------------------------------------------------------- read_registers
\* read_registers up to the request: the cache lookup; on a hit the cached
\* list is returned at once, on a miss the request is sent to the gateway
ReadIssue(t) ==
    LET s == th[t]
        q == Req(s)
        ip == clients[s.client].cached_ip
        g == CacheGet(data_cache, CacheKey(ip, q.unit, q.addr, q.count), now)
        s2 == After(s, Some(g.data), enhanced_diagnostics_var)
    IN  /\ root # "destroyed"
        /\ s.pc \in ReadPcs
        /\ ~s.inflight
        /\ data_cache' = g.dc
        /\ IF g.hit
           THEN /\ th' = [th EXCEPT ![t] = s2]
                /\ clients' = IF Closes(s2) THEN CloseClient(clients, s.client)
                              ELSE clients
           ELSE /\ th' = [th EXCEPT ![t].inflight = TRUE]
                /\ UNCHANGED clients
        /\ UNCHANGED << envVars, guiVars, connection_pool >>

\* a read that stores the outcome of a failed request as well
ReadCompleteCachingFailure(t) ==
    LET s == th[t]
        q == Req(s)
        c == clients[s.client]
    IN  /\ root # "destroyed"
        /\ s.inflight
        /\ \E reconnect \in BOOLEAN :
            LET up == c.open \/ (reconnect /\ c.ip \in reachable)
                answer == IF up THEN GwRead(gw[c.ip], q.unit, q.addr) ELSE None
                s2 == After([s EXCEPT !.inflight = FALSE], answer,
                            enhanced_diagnostics_var)
                cl == [clients EXCEPT ![s.client].open = up]
            IN  /\ c.open => reconnect
                /\ data_cache' =
                     CacheSet(data_cache,
                              CacheKey(c.cached_ip, q.unit, q.addr, q.count),
                              answer.regs, now)
                /\ th' = [th EXCEPT ![t] = s2]
                /\ clients' = IF Closes(s2) THEN CloseClient(cl, s.client) ELSE cl
        /\ UNCHANGED << envVars, guiVars, connection_pool >>

\* read_registers from the response on: an error response or an exception
\* gives None, a register list is cached and returned.  A request on a client
\* that was closed meanwhile either fails or reconnects the client.
ReadComplete(t) ==
    LET s == th[t]
        q == Req(s)
        c == clients[s.client]
    IN  /\ root # "destroyed"
        /\ s.inflight
        /\ \E reconnect \in BOOLEAN :
            LET up == c.open \/ (reconnect /\ c.ip \in reachable)
                answer == IF up THEN GwRead(gw[c.ip], q.unit, q.addr) ELSE None
                s2 == After([s EXCEPT !.inflight = FALSE], answer,
                            enhanced_diagnostics_var)
                cl == [clients EXCEPT ![s.client].open = up]
            IN  /\ c.open => reconnect
                /\ data_cache' =
                     IF answer.ok
                     THEN CacheSet(data_cache,
                                   CacheKey(c.cached_ip, q.unit, q.addr, q.count),
                                   answer.regs, now)
                     ELSE data_cache
                /\ th' = [th EXCEPT ![t] = s2]
                /\ clients' = IF Closes(s2) THEN CloseClient(cl, s.client) ELSE cl
        /\ UNCHANGED << envVars, guiVars, connection_pool >>

\* ------------------------------------------------------------ export path
\* ModbusExporterGUI.start_export: the GUI thread starts an export worker
start_export ==
    /\ root # "destroyed"
    /\ ~is_running
    /\ \E t \in Threads :
        /\ th[t].kind = "none"
        /\ \A u \in Threads : u < t => th[u].kind # "none"
        /\ th' = [th EXCEPT ![t] = [IdleThread EXCEPT !.kind = "export",
                                       !.pc = "connect", !.ip = ip_entry]]
    /\ is_running' = TRUE
    /\ start_btn' = "disabled"
    /\ UNCHANGED << envVars, connection_pool, clients, data_cache, ip_entry,
                    enhanced_diagnostics_var, live_diagnostics_enabled,
                    live_table, root >>

\* collect_data, up to the connection: connection_pool.get_connection(ip)
ExportConnect(t) ==
    LET s == th[t]
        got == get_connection(connection_pool, clients, s.ip, s.ip \in reachable)
    IN  /\ root # "destroyed"
        /\ s.kind = "export"
        /\ s.pc = "connect"
        /\ connection_pool' = got.cp
        /\ clients' = got.cl
        /\ th' = [th EXCEPT ![t] =
                    IF got.client = 0
                    THEN [s EXCEPT !.ret = "None", !.pc = "report"]
                    ELSE [s EXCEPT !.client = got.client, !.pc = "scan"]]
        /\ UNCHANGED << envVars, guiVars, data_cache >>

\* _export_data after collect_data returned: the file dialog and the save,
\* or the failure status, or the handler of an exception
ExportReport(t) ==
    LET s == th[t]
    IN  /\ root # "destroyed"
        /\ s.kind = "export"
        /\ s.pc = "report"
        /\ \E base_file \in BOOLEAN :
            LET text == CASE s.ret = "raise" -> "Export error"
                          [] s.ret = "None" -> "Export failed"
                          [] s.ret = "data" /\ base_file -> "Export completed"
                          [] OTHER -> ""
            IN  /\ s.ret # "data" => base_file
                /\ th' = [th EXCEPT ![t].reported = text, ![t].pc = "finally",
                                     ![t].file = IF s.ret = "data" /\ base_file
                                                 THEN SavedFile(s.data) ELSE NoFile]
        /\ UNCHANGED << envVars, connection_pool, clients, data_cache, ip_entry,
                        enhanced_diagnostics_var, is_running, start_btn,
                        live_diagnostics_enabled, live_table, root >>

\* the finally clause of _export_data
ExportFinally(t) ==
    /\ root # "destroyed"
    /\ th[t].kind = "export"
    /\ th[t].pc = "finally"
    /\ th' = [th EXCEPT ![t].pc = "done"]
    /\ is_running' = FALSE
    /\ start_btn' = IF is_running THEN "normal" ELSE start_btn
    /\ UNCHANGED << envVars, connection_pool, clients, data_cache, ip_entry,
                    enhanced_diagnostics_var,
                    live_diagnostics_enabled, live_table, root >>

\* -------------------------------------------------------------- live path
\* the body of start_live_diagnostics after its guards, for worker t
start_live_diagnostics(t) ==
    /\ live_diagnostics_enabled' = TRUE
    /\ live_table' = <<>>
    /\ th' = [th EXCEPT ![t] = [IdleThread EXCEPT !.kind = "live",
                                   !.pc = "lloop", !.ip = ip_entry]]

\* the body of stop_live_diagnostics after its guard
stop_live_diagnostics ==
    /\ live_diagnostics_enabled' = FALSE
    /\ live_table' = <<>>

\* the body of stop_export after its guard
stop_export ==
    /\ is_running' = FALSE
    /\ start_btn' = "normal"

\* ModbusExporterGUI.toggle_live_diagnostics (the live diagnostics button)
toggle_live_diagnostics ==
    /\ root # "destroyed"
    /\ IF live_diagnostics_enabled
       THEN stop_live_diagnostics /\ UNCHANGED th
       ELSE \E t \in Threads :
                /\ th[t].kind = "none"
                /\ \A u \in Threads : u < t => th[u].kind # "none"
                /\ start_live_diagnostics(t)
    /\ UNCHANGED << envVars, connection_pool, clients, data_cache, ip_entry,
                    enhanced_diagnostics_var, is_running, start_btn, root >>

\* root.destroy(): the main loop returns and the process ends, and with it
\* the daemon threads, the pool, the cache and the widgets
ProcessEnds ==
    /\ root' = "destroyed"
    /\ th' = [t \in Threads |-> IdleThread]
    /\ connection_pool' = [connection_pool EXCEPT !.pool = <<>>]
    /\ clients' = <<>>
    /\ data_cache' = [data_cache EXCEPT !.cache = <<>>]
    /\ is_running' = FALSE
    /\ start_btn' = "normal"
    /\ live_diagnostics_enabled' = FALSE
    /\ live_table' = <<>>

\* ModbusExporterGUI.on_closing with the dialog answered OK (Cancel changes
\* nothing): both stops, and root.destroy scheduled one second later; with
\* nothing running, root.destroy() at once
on_closing ==
    /\ root # "destroyed"
    /\ IF is_running \/ live_diagnostics_enabled
       THEN /\ IF is_running THEN stop_export
               ELSE UNCHANGED << is_running, start_btn >>
            /\ IF live_diagnostics_enabled THEN stop_live_diagnostics
               ELSE UNCHANGED << live_diagnostics_enabled, live_table >>
            /\ root' = "closing"
            /\ UNCHANGED << connection_pool, clients, data_cache, th >>
       ELSE ProcessEnds
    /\ UNCHANGED << envVars, ip_entry, enhanced_diagnostics_var >>

\* the scheduled root.destroy() runs
Destroy ==
    /\ root = "closing"
    /\ ProcessEnds
    /\ UNCHANGED << envVars, ip_entry, enhanced_diagnostics_var >>

\* _live_diagnostics_worker: the test of the while loop
LiveLoop(t) ==
    /\ root # "destroyed"
    /\ th[t].kind = "live"
    /\ th[t].pc = "lloop"
    /\ th' = [th EXCEPT ![t].pc = IF live_diagnostics_enabled THEN "lconnect"
                                  ELSE "done"]
    /\ UNCHANGED << envVars, guiVars, connection_pool, clients, data_cache >>

\* _collect_live_diagnostics_data, up to the connection: a client of its own
LiveConnect(t) ==
    LET s == th[t]
        c == NewId(clients)
    IN  /\ root # "destroyed"
        /\ s.kind = "live"
        /\ s.pc = "lconnect"
        /\ IF s.ip \in reachable
           THEN /\ clients' = (c :> NewClient(s.ip, "unknown")) @@ clients
                /\ th' = [th EXCEPT ![t] = [s EXCEPT !.client = c, !.pc = "scan"]]
           ELSE /\ clients' = clients
                /\ th' = [th EXCEPT ![t] = [s EXCEPT !.ret = "None", !.pc = "ltable"]]
        /\ UNCHANGED << envVars, guiVars, connection_pool, data_cache >>

\* _live_diagnostics_worker after the pass: update_live_diagnostics_table with
\* the rows, or without when the pass returned None; the locals of the pass
\* are dropped
LiveTable(t) ==
    LET s == th[t]
        s2 == [IdleThread EXCEPT !.kind = "live", !.pc = "lsleep", !.ip = s.ip]
        threads == [th EXCEPT ![t] = s2]
    IN  /\ root # "destroyed"
        /\ s.kind = "live"
        /\ s.pc = "ltable"
        /\ live_table' = IF s.ret = "data" THEN s.data ELSE <<>>
        /\ th' = threads
        /\ clients' = Collect(clients, connection_pool, threads)
        /\ UNCHANGED << envVars, connection_pool, data_cache, ip_entry,
                        enhanced_diagnostics_var, is_running, start_btn,
                        live_diagnostics_enabled, root >>

\* one iteration of the wait loop: break when disabled, else sleep a second
LiveSleep(t) ==
    LET s == th[t]
    IN  /\ root # "destroyed"
        /\ s.kind = "live"
        /\ s.pc = "lsleep"
        /\ th' = [th EXCEPT ![t] =
                    IF ~live_diagnostics_enabled \/ s.slept + 1 >= SleepIters
                    THEN [s EXCEPT !.slept = 0, !.pc = "lloop"]
                    ELSE [s EXCEPT !.slept = s.slept + 1]]
        /\ UNCHANGED << envVars, guiVars, connection_pool, clients, data_cache >>

\* ------------------------------------------------------------ environments
\* The gateway address the IP field holds after construction
DefaultIp == "10.0.1.110"

Pad(regs, n) == regs \o [k \in 1..(n - Len(regs)) |-> 0]

\* register contents: "EMS59443", "EMS59440", "SMT10020", "XYZ" packed two
\* characters per register
RegsCL110 == Pad(<<17741, 21301, 14644, 13363>>, 16)
RegsTH110 == Pad(<<17741, 21301, 14644, 13360>>, 16)
RegsHeatTag == Pad(<<21325, 21553, 12336, 12848>>, 16)
RegsXYZ == Pad(<<22617, 23040>>, 16)

\* a device answering every identity and diagnostic register
DeviceAnswers(ref) ==
    (31060 :> Some(ref)) @@
    (31026 :> Some(<<18, 43981, 0, 0, 0, 0>>)) @@
    (31088 :> Some(Pad(<<21326, 12337>>, 10))) @@
    (31000 :> Some(Pad(<<21576, 12576>>, 10))) @@
    (31010 :> Some(<<19505, 8224, 0>>)) @@
    (31106 :> Some(Pad(<<20557>>, 8))) @@
    (31144 :> Some(<<1>>)) @@ (31145 :> Some(<<1>>)) @@
    (31151 :> Some(<<16544, 0>>)) @@ (31153 :> Some(<<49778, 0>>)) @@
    (31155 :> Some(<<70>>)) @@ (31156 :> Some(<<16712, 0>>)) @@
    (31158 :> Some(<<49824, 0>>)) @@ (31160 :> Some(<<40>>)) @@
    (3315 :> Some(<<16456, 62915>>)) @@
    (3321 :> Some(<<99>>)) @@ (3322 :> Some(<<1>>)) @@ (31175 :> Some(<<2>>))

IdentityAddrs == {31060, 31026, 31088, 31000, 31010, 31106}

\* the answers a with the registers in failed answering with an error
Failing(a, failed) == [x \in DOMAIN a |-> IF x \in failed THEN None ELSE a[x]]

\* slots: the given outcomes, then empty slots (0xFFFF) up to MaxDevices
Slots(first) ==
    [k \in 1..MaxDevices |-> IF k <= Len(first) THEN first[k] ELSE Some(<<65535>>)]

Gateway(slots, dev) == [slots |-> slots, dev |-> dev]

\* what one discovery slot may answer: an error, an empty list, the two
\* "no device" words, a device address and a word above 255
SlotOutcomes ==
    {None, Some(<<>>), Some(<<0>>), Some(<<65535>>), Some(<<10>>), Some(<<300>>)}

\* every assignment of outcomes to the slots; device 10 answers in part, the
\* other addresses not at all
EnvScan ==
    {Gateway(slots, (10 :> Failing(DeviceAnswers(RegsXYZ), {31026, 31088})))
        : slots \in [1..MaxDevices -> SlotOutcomes]}

\* devices 10 and 20 paired; every subset of the identity reads of device 10
\* fails, with every reference; device 20 answers or is silent
EnvProfile ==
    {Gateway(Slots(<<Some(<<10>>), Some(<<65535>>), Some(<<20>>)>>),
             (10 :> Failing(DeviceAnswers(ref), failed)) @@ (20 :> second))
        : ref \in {RegsCL110, RegsTH110, RegsHeatTag, RegsXYZ},
          failed \in SUBSET IdentityAddrs,
          second \in {DeviceAnswers(RegsTH110),
                      Failing(DeviceAnswers(RegsTH110), IdentityAddrs)}}

DiagAddrs == {31144, 31145, 31151, 31153, 31155, 31156, 31158, 31160,
              3315, 3321, 3322, 31175}

\* the answers a with register addr answering out
Override(a, addr, out) == [x \in DOMAIN a |-> IF x = addr THEN out ELSE a[x]]

\* what a diagnostic register may answer instead of its value: an error, or a
\* list of another length than requested
Deviations == {None, Some(<<>>), Some(<<7>>), Some(<<1, 2, 3>>)}

\* devices 10 (of each known type) and 20; at most one diagnostic register of
\* device 10 deviates (address 0: none does)
EnvDiag ==
    {Gateway(Slots(<<Some(<<10>>), Some(<<20>>)>>),
             (10 :> Override(DeviceAnswers(ref), addr, out))
             @@ (20 :> DeviceAnswers(RegsTH110)))
        : ref \in {RegsCL110, RegsTH110, RegsHeatTag},
          addr \in DiagAddrs \cup {0},
          out \in Deviations}

\* ---------------------------------------------------------- specifications
\* the state after construction, with the gateway drawn from G, the network
\* from R and the diagnostics checkbox from E
InitWith(G, R, E) ==
    /\ gw \in {(DefaultIp :> g) : g \in G}
    /\ reachable \in R
    /\ now = 0
    /\ connection_pool = [pool |-> <<>>, max_connections |-> PoolMaxConnections]
    /\ clients = <<>>
    /\ data_cache = [cache |-> <<>>, max_size |-> CacheMaxSize, ttl |-> CacheTtl]
    /\ ip_entry = DefaultIp
    /\ enhanced_diagnostics_var \in E
    /\ is_running = FALSE
    /\ start_btn = "normal"
    /\ live_diagnostics_enabled = FALSE
    /\ live_table = <<>>
    /\ root = "alive"
    /\ th = [t \in Threads |-> IdleThread]

\* Export runs one after the other against every gateway of EnvScan,
\* EnvProfile and EnvDiag
InitRun ==
    \/ InitWith(EnvScan, {{DefaultIp}}, {FALSE})
    \/ InitWith(EnvProfile, {{DefaultIp}}, BOOLEAN)
    \/ InitWith(EnvDiag, {{DefaultIp}}, {TRUE})
    \/ InitWith({Gateway(Slots(<<Some(<<10>>)>>), (10 :> DeviceAnswers(RegsCL110)))},
                {{}}, {FALSE})

NextRun ==
    \/ start_export
    \/ \E t \in Threads :
        \/ ExportConnect(t)
        \/ ReadIssue(t)
        \/ ReadComplete(t)
        \/ ExportReport(t)
        \/ ExportFinally(t)

SpecRun == InitRun /\ [][NextRun]_vars

\* the gateways of the runs that follow one another: device 10 paired and
\* answering, device 10 paired and silent, no device paired
EnvRerun ==
    {Gateway(Slots(<<Some(<<10>>)>>), (10 :> DeviceAnswers(RegsCL110))),
     Gateway(Slots(<<Some(<<10>>)>>), <<>>),
     Gateway(Slots(<<>>), <<>>)}

\* the gateway of the concurrent runs: devices 10 and 20 are paired and do
\* not answer (every read of their registers times out), and the read of the
\* third slot fails
EnvConcurrent == {Gateway(Slots(<<Some(<<10>>), Some(<<20>>), None>>), <<>>)}

NoThreadActive == \A t \in Threads : th[t].pc \in {"idle", "done"}

\* environment: between two runs a device is paired or unpaired, or stops or
\* starts answering
GatewayChange ==
    /\ NoThreadActive
    /\ \E g \in EnvRerun : g # gw[DefaultIp] /\ gw' = (DefaultIp :> g)
    /\ UNCHANGED << reachable, now, guiVars, connection_pool, clients,
                    data_cache, th >>

\* environment: between two runs the gateway becomes unreachable or reachable
NetworkChange ==
    /\ NoThreadActive
    /\ reachable' = IF DefaultIp \in reachable THEN {} ELSE {DefaultIp}
    /\ UNCHANGED << gw, now, guiVars, connection_pool, clients, data_cache, th >>

\* environment: between two runs half the cache's time to live passes
Tick ==
    /\ NoThreadActive
    /\ now < MaxTicks * (CacheTtl \div 2)
    /\ now' = now + (CacheTtl \div 2)
    /\ UNCHANGED << gw, reachable, guiVars, connection_pool, clients,
                    data_cache, th >>

\* Export runs one after the other while the gateway, the network and the
\* clock change between them
InitRerun == InitWith(EnvRerun, {{DefaultIp}, {}}, {TRUE})

NextRerun ==
    \/ start_export
    \/ GatewayChange
    \/ NetworkChange
    \/ Tick
    \/ \E t \in Threads :
        \/ ExportConnect(t)
        \/ ReadIssue(t)
        \/ ReadComplete(t)
        \/ ExportReport(t)
        \/ ExportFinally(t)

SpecRerun == InitRerun /\ [][NextRerun]_vars

\* The GUI thread and the worker threads, every interleaving
Init == InitWith(EnvConcurrent, {{DefaultIp}}, {TRUE})

Next ==
    \/ start_export
    \/ toggle_live_diagnostics
    \/ on_closing
    \/ Destroy
    \/ \E t \in Threads :
        \/ ExportConnect(t)
        \/ ReadIssue(t)
        \/ ReadComplete(t)
        \/ ExportReport(t)
        \/ ExportFinally(t)
        \/ LiveLoop(t)
        \/ LiveConnect(t)
        \/ LiveTable(t)
        \/ LiveSleep(t)

Spec == Init /\ [][Next]_vars

\* ------------------------------------------- profiling on both paths
\* the registers holding the characters chars, two per register, padded with
\* NUL to n registers
RegsOf(chars, n) ==
    [k \in 1..n |->
        (IF 2 * k - 1 <= Len(chars) THEN chars[2 * k - 1] ELSE 0) * 256
        + (IF 2 * k <= Len(chars) THEN chars[2 * k] ELSE 0)]

\* what the Commercial Reference read may answer: the three known references,
\* a known one followed by blanks, in lower case, cut short, too long, with
\* another last digit, after a leading NUL, another text, only NULs, an error
RefAnswers ==
    {Some(RegsCL110), Some(RegsTH110), Some(RegsHeatTag), Some(RegsXYZ),
     Some(RegsOf(EMS59443 \o <<32, 32>>, 16)),
     Some(RegsOf(<<101, 109, 115, 53, 57, 52, 52, 51>>, 16)),
     Some(RegsOf(SubSeq(EMS59443, 1, 7), 16)),
     Some(RegsOf(EMS59443 \o <<88>>, 16)),
     Some(RegsOf(<<69, 77, 83, 53, 57, 52, 52, 49>>, 16)),
     Some(RegsOf(<<0>> \o SMT10020, 16)),
     Some(RegsOf(<<>>, 16)),
     None}

\* what the RFID read may answer: words with trailing zeros, with a zero
\* word between or before non-zero words, only zeros, six non-zero words,
\* an error
RfidAnswers ==
    {Some(<<18, 43981, 0, 0, 0, 0>>), Some(<<18, 0, 0, 0, 0, 0>>),
     Some(<<18, 0, 171, 0, 0, 0>>), Some(<<0, 18, 0, 0, 0, 0>>),
     Some(<<0, 0, 0, 0, 0, 0>>), Some(<<1, 2, 3, 4, 5, 6>>),
     Some(<<65535, 0, 0, 0, 0, 43981>>), None}

\* one device paired, with each reference answer and each RFID answer
EnvIdentity ==
    {Gateway(Slots(<<Some(<<10>>)>>),
             (10 :> Override(DeviceAnswers(RegsTH110), 31060, ref))) : ref \in RefAnswers}
    \cup
    {Gateway(Slots(<<Some(<<10>>)>>),
             (10 :> Override(DeviceAnswers(RegsCL110), 31026, rfid))) : rfid \in RfidAnswers}

\* export runs and live diagnostics against the same gateway, one worker
\* after the other: the user starts a worker when none is active, and may
\* stop live diagnostics at any time
InitPaths == InitWith(EnvIdentity, {{DefaultIp}}, {FALSE})

NextPaths ==
    \/ (\A t \in Threads : th[t].pc \in {"idle", "done"}) /\ start_export
    \/ /\ live_diagnostics_enabled \/ \A t \in Threads : th[t].pc \in {"idle", "done"}
       /\ toggle_live_diagnostics
    \/ \E t \in Threads :
        \/ ExportConnect(t)
        \/ ReadIssue(t)
        \/ ReadComplete(t)
        \/ ExportReport(t)
        \/ ExportFinally(t)
        \/ LiveLoop(t)
        \/ LiveConnect(t)
        \/ LiveTable(t)
        \/ LiveSleep(t)

SpecPaths == InitPaths /\ [][NextPaths]_vars

\* ------------------------------------------------- diagnostics and export
\* devices 10 and 20 paired, of every pair of types (the three known ones and
\* an unknown one), all registers answering
EnvBatch ==
    {Gateway(Slots(<<Some(<<10>>), Some(<<20>>)>>),
             (10 :> DeviceAnswers(a)) @@ (20 :> DeviceAnswers(b)))
        : a \in {RegsCL110, RegsTH110, RegsHeatTag, RegsXYZ},
          b \in {RegsCL110, RegsTH110, RegsHeatTag, RegsXYZ}}

\* the diagnostic registers whose read may fail together
FailAddrs == {31144, 31151, 31155, 31160, 3315, 3321, 31175}

\* one device of each known type; every subset of FailAddrs fails
EnvFail ==
    {Gateway(Slots(<<Some(<<10>>)>>), (10 :> Failing(DeviceAnswers(ref), failed)))
        : ref \in {RegsCL110, RegsTH110, RegsHeatTag},
          failed \in SUBSET FailAddrs}

\* LQI words around the thresholds 30 and 60
LqiWords == {0, 29, 30, 31, 59, 60, 61, 65535}

\* Gateway PER as the two words of a binary32: 0.0, 9.99, 10.0, 10.004, 10.01,
\* 29.99, 30.0, 30.01, 100.0, -5.0, +infinity and a NaN
PerWords ==
    {<<0, 0>>, <<16671, 55050>>, <<16672, 0>>, <<16672, 4194>>,
     <<16672, 10486>>, <<16879, 60293>>, <<16880, 0>>, <<16880, 5243>>,
     <<17096, 0>>, <<49312, 0>>, <<32640, 0>>, <<32704, 0>>}

\* one TH110 with every LQI and Gateway PER of the two sets
EnvSignal ==
    {Gateway(Slots(<<Some(<<10>>)>>),
             (10 :> Override(Override(DeviceAnswers(RegsTH110), 31155, Some(<<lqi>>)),
                             31151, Some(per))))
        : lqi \in LqiWords, per \in PerWords}

\* export runs with enhanced diagnostics, one after the other
InitDiag == InitWith(EnvBatch \cup EnvFail \cup EnvSignal, {{DefaultIp}}, {TRUE})

SpecDiag == InitDiag /\ [][NextRun]_vars

\* ------------------------------------------------------------------ claims
ExportThreads == {t \in Threads : th[t].kind = "export"}
LiveThreads == {t \in Threads : th[t].kind = "live"}
\* the threads that are past the connection, with a client
Connected == {t \in Threads : th[t].client # 0}

RECURSIVE DiscoveredIn(_)
\* the words of the slot outcomes that are a successful read of a word other
\* than 0x0000 and 0xFFFF, in slot order, duplicates kept
DiscoveredIn(outcomes) ==
    IF outcomes = <<>> THEN <<>>
    ELSE LET o == Head(outcomes)
         IN  (IF o.ok /\ o.regs # <<>> /\ o.regs[1] # 0 /\ o.regs[1] # 65535
              THEN <<o.regs[1]>> ELSE <<>>) \o DiscoveredIn(Tail(outcomes))

\* C1: get_device_ids visits the slots in ascending order, one after the
\* other and up to the last one whatever a slot answers: after i slots the
\* list holds exactly the valid words of the first i slots, in slot order
\* with duplicates kept, and the scan is left only after the last slot.
C1_DiscoveryScan ==
    \A t \in Connected :
        LET s == th[t]
        IN  /\ s.i \in 0..MaxDevices
            /\ s.device_ids = DiscoveredIn(SubSeq(gw[s.ip].slots, 1, s.i))
            /\ s.pc = "scan" => s.i < MaxDevices
            /\ s.pc # "scan" => s.i = MaxDevices

\* a scan over a failed slot followed by the same device in two slots is done
C1_Witness ==
    \E t \in Connected :
        /\ th[t].pc # "scan"
        /\ ~gw[th[t].ip].slots[1].ok
        /\ th[t].device_ids = <<10, 10>>

\* an in-flight request: the read was sent and its response is awaited
InFlight(t) == th[t].inflight

\* C2: no two register reads are in flight at the same time on the same
\* client object, under every interleaving of the GUI operations and the
\* worker threads' steps.
C2_OneReadPerConnection ==
    \A t1, t2 \in Threads :
        (t1 # t2 /\ InFlight(t1) /\ InFlight(t2)) => th[t1].client # th[t2].client

\* C3: an export worker never goes on to the next device while the stop flag
\* is set (is_running is FALSE): it reads no register of a later device.
C3_StopBetweenDevices ==
    [][\A t \in Threads :
          (th[t].kind = "export" /\ ~is_running /\ th[t].idx >= 1)
              => th'[t].idx # th[t].idx + 1]_vars

\* C4: once live_diagnostics_enabled is cleared, a live worker starts no new
\* pass and, inside a pass, does not go on to the next device.
C4_LiveStopBetweenDevices ==
    [][\A t \in Threads :
          (th[t].kind = "live" /\ ~live_diagnostics_enabled)
              => /\ ~(th[t].pc = "lloop" /\ th'[t].pc = "lconnect")
                 /\ ~(th[t].idx >= 1 /\ th'[t].idx = th[t].idx + 1)]_vars

\* the export runs that ended, and what each returned and reported
Ended(t) == th[t].kind = "export" /\ th[t].pc \in {"finally", "done"}
Outcome(t) == << th[t].ret, th[t].reported >>

\* C5: a run that connected and discovered no device ends in another outcome
\* (return value of collect_data, status reported by _export_data) than a run
\* that could not connect.
C5_ZeroDevicesDistinct ==
    \A t1, t2 \in Threads :
        (/\ Ended(t1) /\ th[t1].client = 0
         /\ Ended(t2) /\ th[t2].client # 0 /\ th[t2].device_ids = <<>>)
            => Outcome(t1) # Outcome(t2)

\* what the registers of device unit at gateway g give for the identity
\* fields of its export record: a failed read leaves the field empty (the
\* type Unknown), a successful one gives the decoded value
Answer(g, unit, addr) == GwRead(g, unit, addr)
ExpectedIdentity(g, unit) ==
    LET dec(addr) == IF Truthy(Answer(g, unit, addr))
                     THEN decode_ascii_cached(Answer(g, unit, addr).regs)
                     ELSE <<>>
    IN  [DeviceID |-> unit,
         DeviceType |-> IF ~Truthy(Answer(g, unit, 31060)) THEN "Unknown"
                        ELSE DeviceTypeOf(dec(31060)),
         RFID |-> IF Truthy(Answer(g, unit, 31026))
                  THEN RfidHex(Answer(g, unit, 31026).regs) ELSE <<>>,
         SerialNumber |-> dec(31088),
         DeviceName |-> dec(31000),
         DeviceLabel |-> dec(31010)]

Identity(rec) ==
    [DeviceID |-> rec.DeviceID, DeviceType |-> rec.DeviceType,
     RFID |-> rec.RFID, SerialNumber |-> rec.SerialNumber,
     DeviceName |-> rec.DeviceName, DeviceLabel |-> rec.DeviceLabel]

\* C6: a run reflects what the gateway's registers hold during that run (the
\* registers change only between runs): the devices it discovered so far are
\* those of the slots now, and its records are those of the registers now.
C6_RunReflectsGateway ==
    \A t \in Threads :
        (th[t].kind = "export" /\ th[t].pc # "done" /\ th[t].client # 0) =>
            /\ th[t].device_ids =
                   DiscoveredIn(SubSeq(gw[th[t].ip].slots, 1, th[t].i))
            /\ \A k \in 1..Len(th[t].data) :
                   Identity(th[t].data[k]) =
                       ExpectedIdentity(gw[th[t].ip], th[t].data[k].DeviceID)

\* the Float32 fields of the plan of a device whose read gives a non-empty
\* list of another length than 2
MalformedFloats(g, unit) ==
    LET plan == EnhancedRegisters(ExpectedIdentity(g, unit).DeviceType)
    IN  {k \in 1..Len(plan) :
            /\ plan[k].type = "Float32"
            /\ Truthy(Answer(g, unit, plan[k].addr))
            /\ Len(Answer(g, unit, plan[k].addr).regs) # 2}

\* C7: a Float32 field whose read returns a list of another length than 2
\* does not abort anything: the run returns a record for every discovered
\* device, and that field of the device is a placeholder.
C7_MalformedFloatIsLocal ==
    \A t \in Threads :
        (Ended(t) /\ th[t].client # 0 /\ th[t].device_ids # <<>>) =>
            /\ th[t].ret = "data"
            /\ Len(th[t].data) = Len(th[t].device_ids)
            /\ \A k \in 1..Len(th[t].data) :
                LET rec == th[t].data[k]
                    plan == EnhancedRegisters(rec.DeviceType)
                IN  \A f \in MalformedFloats(gw[th[t].ip], rec.DeviceID) :
                        rec.EnhancedDiagnostics # EmptyDict =>
                            rec.EnhancedDiagnostics[plan[f].name].k \in {"none", "na"}

\* the positions inside the device loop of collect_data
DevicePcs == {"ref", "rfid", "sn", "name", "label", "diag", "pm"}

\* C8: whatever identity reads of a device fail, collect_data emits the
\* device's record with the failed fields empty (type Unknown for a failed
\* reference) and the others decoded; the failure stops neither the device's
\* later reads nor the later devices: one record per device, in order, and
\* nothing but a malformed Float32 answer makes the run raise.
C8_IdentityReadsIndependent ==
    \A t \in Threads :
        (th[t].kind = "export" /\ th[t].client # 0) =>
            LET s == th[t]
                g == gw[s.ip]
            IN  /\ \A k \in 1..Len(s.data) :
                       /\ s.data[k].DeviceID = s.device_ids[k]
                       /\ Identity(s.data[k]) = ExpectedIdentity(g, s.device_ids[k])
                /\ s.pc \in DevicePcs => Len(s.data) = s.idx - 1
                /\ (s.pc \notin ReadPcs /\ s.device_ids # <<>>) =>
                       s.ret \in {"data", "raise"}
                /\ s.ret = "data" => Len(s.data) = Len(s.device_ids)
                /\ s.ret = "raise" =>
                       /\ enhanced_diagnostics_var
                       /\ MalformedFloats(g, CurDevice(s)) # {}

\* a run returned two records; the reference and the RFID read of the first
\* device failed, its serial number read and the second device's reads did not
C8_Witness ==
    \E t \in Threads :
        /\ Ended(t) /\ th[t].ret = "data" /\ Len(th[t].data) = 2
        /\ ~Truthy(Answer(gw[th[t].ip], 10, 31060))
        /\ ~Truthy(Answer(gw[th[t].ip], 10, 31026))
        /\ ~Truthy(Answer(gw[th[t].ip], 10, 31106))
        /\ th[t].data[1].DeviceType = "Unknown"
        /\ th[t].data[1].RFID = <<>>
        /\ th[t].data[1].SerialNumber = <<83, 78, 48, 49>>
        /\ th[t].data[2].DeviceType = "TH110"

\* C9: every register read that is issued has count >= 1, a device address
\* in 0..255 and a start register in 0..65535.
C9_RequestInvariant ==
    \A t \in Threads :
        InFlight(t) =>
            /\ Req(th[t]).count >= 1
            /\ Req(th[t]).unit \in 0..255
            /\ Req(th[t]).addr \in 0..65535

\* C10: on the export path and on the live path, no diagnostic register of a
\* device classified Unknown is read, and its diagnostics map is empty.
C10_UnknownSkipsDiagnostics ==
    \A t \in Threads :
        /\ (th[t].pc = "diag" /\ th[t].kind \in {"export", "live"}) =>
               th[t].device_type # "Unknown"
        /\ \A k \in 1..Len(th[t].data) :
               th[t].data[k].DeviceType = "Unknown" =>
                   th[t].data[k].EnhancedDiagnostics = EmptyDict

\* the decoded Commercial Reference of a device: the empty string when the
\* read failed
DecodedRef(g, unit) ==
    IF Truthy(Answer(g, unit, 31060))
    THEN decode_ascii_cached(Answer(g, unit, 31060).regs) ELSE <<>>

\* the classification table
TypeOfReference(ref) ==
    CASE ref = EMS59443 -> "CL110"
      [] ref = EMS59440 -> "TH110"
      [] ref = SMT10020 -> "HeatTag"
      [] OTHER -> "Unknown"

\* the positions of a worker after the Commercial Reference read of its
\* current device
PastRefPcs == {"rfid", "sn", "name", "label", "diag", "pm"}

\* C11: on the export path and on the live path the device type is the table
\* entry of the decoded Commercial Reference (exactly the three known strings,
\* Unknown for every other one and for a failed read), in the worker's local,
\* in its records and in the live table.
C11_TypeIsFunctionOfReference ==
    /\ \A t \in Threads :
        LET s == th[t]
        IN  /\ (s.kind \in {"export", "live"} /\ s.pc \in PastRefPcs) =>
                   s.device_type = TypeOfReference(DecodedRef(gw[s.ip], CurDevice(s)))
            /\ \A k \in 1..Len(s.data) :
                   s.data[k].DeviceType =
                       TypeOfReference(DecodedRef(gw[s.ip], s.data[k].DeviceID))
    /\ \A k \in 1..Len(live_table) :
           live_table[k].DeviceType =
               TypeOfReference(DecodedRef(gw[DefaultIp], live_table[k].DeviceID))

\* the reference is "EMS59443" followed by blanks: an export run recorded the
\* device as CL110 and a live pass shows it as CL110
C11_Witness ==
    /\ Answer(gw[DefaultIp], 10, 31060) = Some(RegsOf(EMS59443 \o <<32, 32>>, 16))
    /\ \E t \in Threads :
        /\ Ended(t) /\ Len(th[t].data) = 1 /\ th[t].data[1].DeviceType = "CL110"
    /\ Len(live_table) = 1 /\ live_table[1].DeviceType = "CL110"

\* the diagnostics maps read_enhanced_diagnostics returned to an export
\* worker, each with the gateway, the device and the type it was read for
ReturnedMaps ==
    UNION {
        {[g |-> gw[th[t].ip], unit |-> rec.DeviceID, type |-> rec.DeviceType,
          d |-> rec.EnhancedDiagnostics] :
            rec \in {r \in {th[t].data[k] : k \in 1..Len(th[t].data)}
                            \cup (IF th[t].pc = "pm" THEN {th[t].device_data} ELSE {}) :
                        r.EnhancedDiagnostics # EmptyDict}}
        : t \in ExportThreads}

KnownTypes == {"CL110", "TH110", "HeatTag"}

\* C12: a returned diagnostics map has a key for every field of its type's
\* plan, whatever reads failed, and the value of a field whose read failed is
\* "N/A"; so has the map under construction for the fields read so far, and
\* a device of a known type never gets an empty map.
C12_FailedFieldIsNA ==
    /\ \A m \in ReturnedMaps :
        /\ m.type \in KnownTypes
        /\ \A k \in 1..Len(EnhancedRegisters(m.type)) :
            LET f == EnhancedRegisters(m.type)[k]
            IN  /\ f.name \in DOMAIN m.d
                /\ ~Truthy(Answer(m.g, m.unit, f.addr)) => m.d[f.name] = NA
    /\ \A t \in ExportThreads :
        /\ th[t].pc = "diag" =>
               \A k \in 1..(th[t].j - 1) :
                   EnhancedRegisters(th[t].device_type)[k].name \in DOMAIN th[t].diagnostics
        /\ \A k \in 1..Len(th[t].data) :
               (th[t].data[k].DeviceType \in KnownTypes /\ enhanced_diagnostics_var)
                   => th[t].data[k].EnhancedDiagnostics # EmptyDict

\* a HeatTag's map: the RF validity and the alarm type read failed and are
\* "N/A", the LQI read succeeded
C12_Witness ==
    \E m \in ReturnedMaps :
        /\ m.type = "HeatTag"
        /\ ~Truthy(Answer(m.g, m.unit, 31144)) /\ ~Truthy(Answer(m.g, m.unit, 3321))
        /\ Truthy(Answer(m.g, m.unit, 31155))
        /\ m.d["RF Communication Validity"] = NA
        /\ m.d["HeatTag Alarm Type"] = NA
        /\ m.d["LQI"] = IntVal(70)

\* the registers and the names of the plan, by type
CommonAddrs == {31144, 31145, 31151, 31153, 31155, 31156, 31158, 31160}
SpecificAddrs(type) ==
    CASE type = "CL110" -> {3315}
      [] type = "HeatTag" -> {3321, 3322, 31175}
      [] OTHER -> {}
CommonNames ==
    {"RF Communication Validity", "Communication Status", "Gateway PER", "RSSI",
     "LQI", "PER Max", "RSSI Min", "LQI Min"}
SpecificNames(type) ==
    CASE type = "CL110" -> {"Battery Voltage"}
      [] type = "HeatTag" -> {"HeatTag Alarm Type", "HeatTag Alarm Level",
                              "HeatTag Operation Mode"}
      [] OTHER -> {}

\* C13: the diagnostic reads of a device are those of its type: the eight
\* common registers for the three known types, two registers at 3315 for a
\* CL110 only, 3321, 3322 and 31175 for a HeatTag only; the returned map has
\* the fields of exactly these registers (and the signal quality).
C13_PlanByType ==
    /\ \A t \in ExportThreads :
        th[t].pc = "diag" =>
            /\ Req(th[t]).addr \in CommonAddrs \cup SpecificAddrs(th[t].device_type)
            /\ Req(th[t]).addr = 3315 => Req(th[t]).count = 2
            /\ Req(th[t]).unit = CurDevice(th[t])
    /\ \A m \in ReturnedMaps :
        DOMAIN m.d = CommonNames \cup SpecificNames(m.type) \cup {"Signal Quality"}

\* a run returned the maps of a CL110 and of a HeatTag
C13_Witness ==
    \E t \in ExportThreads :
        /\ th[t].ret = "data" /\ Len(th[t].data) = 2
        /\ th[t].data[1].DeviceType = "CL110"
        /\ "Battery Voltage" \in DOMAIN th[t].data[1].EnhancedDiagnostics
        /\ th[t].data[2].DeviceType = "HeatTag"
        /\ "HeatTag Operation Mode" \in DOMAIN th[t].data[2].EnhancedDiagnostics
        /\ "Battery Voltage" \notin DOMAIN th[t].data[2].EnhancedDiagnostics

\* the signal quality matrix, on LQI and PER in hundredths
Matrix(lqi, per) ==
    CASE per > 3000 -> (IF lqi < 6000 THEN "Weak" ELSE "Fair")
      [] per > 1000 /\ per <= 3000 ->
            (IF lqi < 3000 THEN "Weak" ELSE IF lqi < 6000 THEN "Fair" ELSE "Good")
      [] per <= 1000 ->
            (IF lqi < 3000 THEN "Fair" ELSE IF lqi < 6000 THEN "Good" ELSE "Excellent")

IsNumber(v) == v.k \in {"int", "float"} /\ v.s # "nan"

\* C14: for numeric LQI and Gateway PER the signal quality is the matrix
\* entry, the thresholds LQI 30 and 60 and PER 10 and 30 included.
C14_SignalQualityMatrix ==
    \A m \in ReturnedMaps :
        (IsNumber(m.d["LQI"]) /\ IsNumber(m.d["Gateway PER"])) =>
            m.d["Signal Quality"] =
                StrVal(Matrix(Num(m.d["LQI"]), Num(m.d["Gateway PER"])))

\* LQI 60 with PER 10.0 is Excellent, LQI 30 with PER 30.0 is Fair (two runs
\* cannot share a gateway's values, so one of the two)
C14_Witness ==
    \E m \in ReturnedMaps :
        /\ m.d["LQI"] = IntVal(60)
        /\ m.d["Gateway PER"] = FloatVal(1000, "")
        /\ m.d["Signal Quality"] = StrVal("Excellent")

\* C15: the Signal Quality entry of a returned map is the signal quality of
\* the map's own LQI and Gateway PER entries, and is Unknown when the LQI
\* or the Gateway PER read failed.
C15_SignalQualityFromMap ==
    \A m \in ReturnedMaps :
        /\ m.d["Signal Quality"] =
               StrVal(get_signal_quality(m.d["LQI"], m.d["Gateway PER"]))
        /\ (~Truthy(Answer(m.g, m.unit, 31155)) \/ ~Truthy(Answer(m.g, m.unit, 31151)))
               => m.d["Signal Quality"] = StrVal("Unknown")

\* the LQI read failed, the Gateway PER read did not, the quality is Unknown
C15_Witness ==
    \E m \in ReturnedMaps :
        /\ ~Truthy(Answer(m.g, m.unit, 31155))
        /\ Truthy(Answer(m.g, m.unit, 31151))
        /\ m.d["LQI"] = NA
        /\ m.d["Gateway PER"].k = "float"
        /\ m.d["Signal Quality"] = StrVal("Unknown")

\* the export workers that saved a file
Saved == {t \in ExportThreads : th[t].file # NoFile}

\* the device-type-specific columns
SpecificColumns ==
    {"Battery Voltage", "HeatTag Alarm Type", "HeatTag Alarm Level",
     "HeatTag Operation Mode"}

\* C16: the header of a saved file starts with the identity fields, and no
\* device-type-specific column (Battery Voltage, the three HeatTag fields)
\* stands before a common diagnostic column.
C16_HeaderGroupsInOrder ==
    \A t \in Saved :
        LET h == th[t].file.fieldnames
        IN  /\ SubSeq(h, 1, Len(IdentityFields)) = IdentityFields
            /\ \A i, j \in 1..Len(h) :
                   (i < j /\ h[i] \in SpecificColumns) => h[j] \notin CommonNames

\* every diagnostic column a file may have
DiagnosticColumns == CommonNames \cup SpecificColumns \cup {"Signal Quality"}

\* C17: a diagnostic column is in the header of a saved file exactly when a
\* device of the batch has the field in its diagnostics, there is one row per
\* device, and a row shows a value in the columns its device has and the
\* empty string in the others.
C17_ColumnsAreUnionOfBatch ==
    \A t \in Saved :
        LET data == th[t].data
            file == th[t].file
            extras == SubSeq(file.fieldnames, Len(IdentityFields) + 1,
                             Len(file.fieldnames))
        IN  /\ Len(file.rows) = Len(data)
            /\ Range(extras) \subseteq DiagnosticColumns
            /\ \A c \in DiagnosticColumns :
                   c \in Range(extras) <=>
                       \E k \in 1..Len(data) : c \in DOMAIN data[k].EnhancedDiagnostics
            /\ \A k \in 1..Len(data) :
                   /\ file.rows[k].DeviceID = data[k].DeviceID
                   /\ \A c \in Range(extras) :
                          IF c \in DOMAIN data[k].EnhancedDiagnostics
                          THEN file.rows[k].cells[c] # StrVal("")
                          ELSE file.rows[k].cells[c] = StrVal("")

\* a CL110 and a TH110 were saved: the Battery Voltage column has 3.14 in the
\* first row and is empty in the second
C17_Witness ==
    \E t \in Saved :
        /\ Len(th[t].data) = 2
        /\ th[t].data[1].DeviceType = "CL110"
        /\ th[t].data[2].DeviceType = "TH110"
        /\ "Battery Voltage" \in Range(th[t].file.fieldnames)
        /\ th[t].file.rows[1].cells["Battery Voltage"] = FloatVal(314, "")
        /\ th[t].file.rows[2].cells["Battery Voltage"] = StrVal("")

\* devices 10 and 20 of every pair of types answering every register, and
\* device 10 with a failing RFID read and a failing diagnostic read
EnvTwice ==
    EnvBatch \cup
    {Gateway(Slots(<<Some(<<10>>), Some(<<20>>)>>),
             (10 :> Failing(DeviceAnswers(ref), {31026, 31151}))
             @@ (20 :> DeviceAnswers(RegsTH110)))
        : ref \in {RegsCL110, RegsTH110, RegsHeatTag}}

\* Export runs one after the other against an unchanged gateway while the
\* clock passes the cache's time to live
InitTwice == InitWith(EnvTwice, {{DefaultIp}}, {TRUE})

NextTwice ==
    \/ NextRun
    \/ Tick

SpecTwice == InitTwice /\ [][NextTwice]_vars

\* the position of an export worker is in data-flow order
InDataFlowOrder(s) ==
    /\ s.pc = "scan" => (s.idx = 0 /\ s.data = <<>>)
    /\ s.pc \in DevicePcs =>
           /\ s.i = MaxDevices
           /\ s.idx \in 1..Len(s.device_ids)
           /\ Len(s.data) = s.idx - 1
           /\ \A k \in 1..(s.idx - 1) : s.data[k].DeviceID = s.device_ids[k]
           /\ Req(s).unit = s.device_ids[s.idx]
    /\ s.pc = "diag" =>
           /\ s.device_type \in KnownTypes
           /\ s.device_type = TypeOfReference(DecodedRef(gw[s.ip], CurDevice(s)))
    /\ s.inflight => s.pc \in ReadPcs

\* C18: an export run reads in data-flow order and one read at a time: the
\* scan before any device, a device after the discovery of all and the
\* records of the devices before it, its diagnostics after its reference
\* was read and classified; while a read is in flight the worker's next step
\* is the completion of that read, and the worker never goes back to an
\* earlier slot or device.
C18_ReadsInDataFlowOrder ==
    /\ [](\A t \in ExportThreads : th[t].client # 0 => InDataFlowOrder(th[t]))
    /\ [][\A t \in Threads :
            (th[t].kind = "export" /\ th'[t].kind = "export") =>
                /\ th[t].inflight =>
                       (th'[t] = th[t] \/
                        (~th'[t].inflight /\ th'[t].client = th[t].client))
                /\ th'[t].i >= th[t].i
                /\ th'[t].idx \in {th[t].idx, th[t].idx + 1}]_vars

\* the reference read of the second device is in flight, the first device's
\* record is complete
C18_Witness ==
    \E t \in ExportThreads :
        /\ th[t].inflight /\ th[t].pc = "ref" /\ th[t].idx = 2
        /\ Len(th[t].data) = 1
        /\ th[t].data[1].DeviceID = th[t].device_ids[1]

\* C19: two export runs against the same registers end alike: the same
\* devices in the same order, the same records (identity and diagnostics),
\* the same return.
C19_SecondRunSameRecords ==
    \A t1, t2 \in ExportThreads :
        (Ended(t1) /\ Ended(t2)) =>
            /\ th[t1].ret = th[t2].ret
            /\ th[t1].device_ids = th[t2].device_ids
            /\ th[t1].data = th[t2].data

\* two runs ended, each with the records of two devices with diagnostics
C19_Witness ==
    \E t1, t2 \in ExportThreads :
        /\ t1 # t2 /\ Ended(t1) /\ Ended(t2)
        /\ th[t1].ret = "data" /\ th[t2].ret = "data"
        /\ Len(th[t2].data) = 2
        /\ th[t2].data[1].EnhancedDiagnostics # EmptyDict
        /\ th[t2].data[2].DeviceType = "TH110"
        /\ now >= CacheTtl

RECURSIVE DropTrailingZeros(_)
\* the words of a block up to its last non-zero word
DropTrailingZeros(regs) ==
    IF regs = <<>> THEN <<>>
    ELSE IF regs[Len(regs)] = 0 THEN DropTrailingZeros(SubSeq(regs, 1, Len(regs) - 1))
    ELSE regs

RECURSIVE HexWords(_)
\* every word as four uppercase hexadecimal digits, in register order
HexWords(regs) ==
    IF regs = <<>> THEN <<>> ELSE Hex04(Head(regs)) \o HexWords(Tail(regs))

\* the identifier of a block: zero words dropped when trailing only, every
\* other word formatted, the first eight characters kept
HexIdKeepingInnerZeros(regs) ==
    LET h == HexWords(DropTrailingZeros(regs))
    IN  SubSeq(h, 1, IF Len(h) < 8 THEN Len(h) ELSE 8)

\* the RFID of a record agrees with the block the gateway answers
RfidAsSpecified(g, rec) ==
    LET r == Answer(g, rec.DeviceID, 31026)
    IN  /\ Len(rec.RFID) \in {0, 4, 8}
        /\ Truthy(r) => rec.RFID = HexIdKeepingInnerZeros(r.regs)

\* C20: the RFID of every record, of an export run and of a live pass, is the
\* hex identifier of the 6-register block: each word as 4 uppercase hex
\* digits in register order, zero words skipped only when trailing (a zero
\* word followed by a non-zero word stays "0000"), truncated to 8 characters;
\* its length is 0, 4 or 8.
C20_RfidKeepsInnerZeroWords ==
    /\ \A t \in Threads : \A k \in 1..Len(th[t].data) :
           RfidAsSpecified(gw[th[t].ip], th[t].data[k])
    /\ \A k \in 1..Len(live_table) : RfidAsSpecified(gw[DefaultIp], live_table[k])

\* ------------------------------------------------ decoded columns of a file
\* the registers flatten_diagnostics decodes, with their fields
DecodedAddrs == {31144, 31145, 3321, 3322, 31175}

\* words around the limits of the decoders' ranges
DecoderWords == {0, 1, 2, 3, 4, 15, 16, 93, 94, 98, 99, 100, 190, 191, 65535}

\* a HeatTag device, one of whose decoded registers answers a word of
\* DecoderWords or fails
EnvDecode ==
    {Gateway(Slots(<<Some(<<10>>)>>),
             (10 :> Override(DeviceAnswers(RegsHeatTag), addr, out)))
        : addr \in DecodedAddrs,
          out \in {Some(<<w>>) : w \in DecoderWords} \cup {None}}

\* export runs with enhanced diagnostics against the gateways of EnvDecode
InitDecode == InitWith(EnvDecode, {{DefaultIp}}, {TRUE})

SpecDecode == InitDecode /\ [][NextRun]_vars

\* the integers the partition is compared on
AlarmInts == (-3)..200

\* the alarm type of an integer
AlarmTypeText(n) ==
    IF n = 0 THEN StrVal("No alarm")
    ELSE IF n \in 1..15 THEN StrVal("Low level alarm")
    ELSE IF n \in 16..93 THEN StrVal("Medium level alarm")
    ELSE IF n = 99 THEN StrVal("Test alarm")
    ELSE IF n \in 94..190 THEN StrVal("High level alarm")
    ELSE FmtVal("Unknown", n)

\* C21: decode_heattag_alarm_type maps 0 to "No alarm", 1..15 to "Low level
\* alarm", 16..93 to "Medium level alarm", 99 to "Test alarm", the other
\* values of 94..190 to "High level alarm" and every other integer to
\* Unknown; so does the HeatTag Alarm Type column of every saved file for the
\* word its device answered.
C21_AlarmTypePartition ==
    /\ \A n \in AlarmInts : decode_heattag_alarm_type(IntVal(n)) = AlarmTypeText(n)
    /\ decode_heattag_alarm_type(IntVal(99)) # StrVal("High level alarm")
    /\ \A t \in Saved : \A k \in 1..Len(th[t].data) :
           LET d == th[t].data[k].EnhancedDiagnostics
           IN  ("HeatTag Alarm Type" \in DOMAIN d /\ d["HeatTag Alarm Type"].k = "int") =>
                   th[t].file.rows[k].cells["HeatTag Alarm Type"] =
                       AlarmTypeText(d["HeatTag Alarm Type"].n)

\* a file was saved for a HeatTag whose alarm type register answers 99: the
\* column shows "Test alarm"
C21_Witness ==
    \E t \in Saved :
        /\ th[t].data[1].EnhancedDiagnostics["HeatTag Alarm Type"] = IntVal(99)
        /\ th[t].file.rows[1].cells["HeatTag Alarm Type"] = StrVal("Test alarm")

\* the fields flatten_diagnostics decodes
DecodedFields ==
    {"RF Communication Validity", "Communication Status", "HeatTag Alarm Type",
     "HeatTag Alarm Level", "HeatTag Operation Mode"}

\* C22: the five decoders answer Invalid(value) for every input that is not
\* an integer, the missing value and the "N/A" of a failed read included; so
\* a decoded column of a saved file shows Invalid(value) when the stored
\* value is not an integer.
C22_UnparsableIsInvalid ==
    \A t \in Saved : \A k \in 1..Len(th[t].data) :
        LET d == th[t].data[k].EnhancedDiagnostics
        IN  \A f \in DecodedFields \cap DOMAIN d :
                d[f].k # "int" => th[t].file.rows[k].cells[f] = FmtVal("Invalid", 0)

\* ------------------------------------------------------- decoded names
\* words with a NUL byte, whitespace bytes and bytes above 127
AsciiWords == {0, 65, 16640, 16706, 8257, 16672, 8224, 2314, 41025, 255}

\* the word sequences of length n
WordSeqs(n) == [1..n -> AsciiWords]

\* one device whose Device Name register answers one or two words of
\* AsciiWords
EnvAscii ==
    {Gateway(Slots(<<Some(<<10>>)>>),
             (10 :> Override(DeviceAnswers(RegsCL110), 31000, Some(name))))
        : name \in WordSeqs(1) \cup WordSeqs(2)}

InitAscii == InitWith(EnvAscii, {{DefaultIp}}, {FALSE})

SpecAscii == InitAscii /\ [][NextRun]_vars

RECURSIVE WordBytes(_)
\* high byte then low byte of every word
WordBytes(regs) ==
    IF regs = <<>> THEN <<>>
    ELSE << Head(regs) \div 256, Head(regs) % 256 >> \o WordBytes(Tail(regs))

RECURSIVE BeforeNul(_)
\* the bytes that precede the first NUL byte
BeforeNul(b) ==
    IF b = <<>> \/ Head(b) = 0 THEN <<>> ELSE << Head(b) >> \o BeforeNul(Tail(b))

RECURSIVE TrimLeft(_)
TrimLeft(b) ==
    IF b # <<>> /\ Head(b) \in Whitespace THEN TrimLeft(Tail(b)) ELSE b

RECURSIVE TrimRight(_)
TrimRight(b) ==
    IF b # <<>> /\ b[Len(b)] \in Whitespace
    THEN TrimRight(SubSeq(b, 1, Len(b) - 1)) ELSE b

\* the text of a word sequence
TextOfWords(regs) == TrimRight(TrimLeft(BeforeNul(WordBytes(regs))))

\* C23: the ASCII decoder returns the bytes (high then low byte of each word)
\* that precede the first NUL byte, without the surrounding whitespace; the
\* result holds no NUL, and the empty sequence decodes to the empty string;
\* the Device Name of every exported record is that text of the words the
\* register answered.
C23_AsciiUpToNulStripped ==
    /\ \A regs \in WordSeqs(0) \cup WordSeqs(1) \cup WordSeqs(2) :
           /\ decode_ascii_cached(regs) = TextOfWords(regs)
           /\ \A k \in 1..Len(decode_ascii_cached(regs)) :
                  decode_ascii_cached(regs)[k] # 0
    /\ decode_ascii_cached(<<>>) = <<>>
    /\ \A t \in ExportThreads : \A k \in 1..Len(th[t].data) :
           LET r == Answer(gw[th[t].ip], th[t].data[k].DeviceID, 31000)
           IN  Truthy(r) => th[t].data[k].DeviceName = TextOfWords(r.regs)

\* the name register answers "A " and then a NUL word: the record's name is "A"
C23_Witness ==
    \E t \in ExportThreads :
        /\ Ended(t) /\ Len(th[t].data) = 1
        /\ Answer(gw[th[t].ip], 10, 31000) = Some(<<16672, 0>>)
        /\ th[t].data[1].DeviceName = <<65>>

\* ----------------------------------------------------- the cache by itself
\* the capacity of the cache object the operations are applied to
SmallCacheSize == 2

\* the keys and the register lists of the operations
CacheKeys == {CacheKey(DefaultIp, 10, addr, 1) : addr \in {31144, 31145, 31155}}
CacheData == {<<0>>, <<1>>}

\* DataCache(max_size = SmallCacheSize), nothing else running
InitCache ==
    /\ gw = (DefaultIp :> Gateway(Slots(<<>>), <<>>))
    /\ reachable = {DefaultIp}
    /\ now = 0
    /\ connection_pool = [pool |-> <<>>, max_connections |-> PoolMaxConnections]
    /\ clients = <<>>
    /\ data_cache = [cache |-> <<>>, max_size |-> SmallCacheSize, ttl |-> CacheTtl]
    /\ ip_entry = DefaultIp
    /\ enhanced_diagnostics_var = FALSE
    /\ is_running = FALSE
    /\ start_btn = "normal"
    /\ live_diagnostics_enabled = FALSE
    /\ live_table = <<>>
    /\ root = "alive"
    /\ th = [t \in Threads |-> IdleThread]

\* data_cache.get(...), data_cache.set(...) and data_cache.clear() called at
\* any time
DataCacheGet ==
    /\ \E key \in CacheKeys : data_cache' = CacheGet(data_cache, key, now).dc
    /\ UNCHANGED << envVars, guiVars, connection_pool, clients, th >>

DataCacheSet ==
    /\ \E key \in CacheKeys, data \in CacheData :
           data_cache' = CacheSet(data_cache, key, data, now)
    /\ UNCHANGED << envVars, guiVars, connection_pool, clients, th >>

DataCacheClear ==
    /\ data_cache' = CacheClear(data_cache)
    /\ UNCHANGED << envVars, guiVars, connection_pool, clients, th >>

NextCache ==
    \/ DataCacheGet
    \/ DataCacheSet
    \/ DataCacheClear
    \/ Tick

SpecCache == InitCache /\ [][NextCache]_vars

\* C24: after any sequence of get, set and clear the cache holds at most
\* max_size entries, one per key; get returns the data of an entry younger
\* than ttl only, and an entry whose age has reached ttl is removed by get
\* and reported as a miss.
C24_CacheBoundedAndFresh ==
    /\ Len(data_cache.cache) <= data_cache.max_size
    /\ \A i, j \in 1..Len(data_cache.cache) :
           data_cache.cache[i].key = data_cache.cache[j].key => i = j
    /\ \A key \in CacheKeys :
           LET g == CacheGet(data_cache, key, now)
               k == CacheIndex(data_cache.cache, key)
           IN  /\ g.hit => /\ k # 0
                           /\ now - data_cache.cache[k].ts < data_cache.ttl
                           /\ g.data = data_cache.cache[k].data
               /\ (k # 0 /\ now - data_cache.cache[k].ts >= data_cache.ttl) =>
                      /\ ~g.hit
                      /\ CacheIndex(g.dc.cache, key) = 0
               /\ Len(g.dc.cache) <= Len(data_cache.cache)

\* the cache is full, and one of its entries has reached ttl while another
\* has not
C24_Witness ==
    /\ Len(data_cache.cache) = data_cache.max_size
    /\ \E i, j \in 1..Len(data_cache.cache) :
        /\ now - data_cache.cache[i].ts >= data_cache.ttl
        /\ now - data_cache.cache[j].ts < data_cache.ttl

\* the live workers that are in a pass or in the wait that follows it
PollingLiveWorkers ==
    {t \in Threads : th[t].kind = "live" /\ th[t].pc \notin {"lloop", "done"}}

\* C25: at most one live-diagnostics worker is active at any time, whatever
\* the interleaving of the toggles (stop, then start) with the worker's pass
\* and its sleep steps: no two workers are polling at once.
C25_AtMostOneLiveWorker == Cardinality(PollingLiveWorkers) <= 1

\* C28: once stop_live_diagnostics has cleared the live table, no worker
\* started before the stop writes rows into it: while live diagnostics is
\* off, the table is empty.
C28_TableEmptyWhileStopped == ~live_diagnostics_enabled => live_table = <<>>

\* the export workers that have not returned
ActiveExportWorkers == {t \in Threads : th[t].kind = "export" /\ th[t].pc # "done"}

\* C30: is_running is true whenever an export worker is active, so no second
\* worker is started while one is running.
C30_RunningWhileWorkerActive ==
    /\ ActiveExportWorkers # {} => is_running
    /\ Cardinality(ActiveExportWorkers) <= 1

\* the gateway answer a cache entry stands for
AnswerOfKey(key) == GwRead(gw[key[1]], key[2], key[3])

\* C29: a failed read (error response or exception) is never stored in the
\* cache: every entry is the word list of a successful answer, the failure
\* leaves the cache as it was, and the next read of the same gateway, device,
\* register and count misses the cache and issues a new request.
C29_FailedReadNotCached ==
    /\ [](\A k \in 1..Len(data_cache.cache) :
            /\ AnswerOfKey(data_cache.cache[k].key).ok
            /\ data_cache.cache[k].data = AnswerOfKey(data_cache.cache[k].key).regs)
    /\ [](\A t \in ExportThreads :
            LET s == th[t]
                q == Req(s)
                ip == clients[s.client].cached_ip
            IN  (s.client # 0 /\ s.pc \in ReadPcs /\ ~s.inflight
                 /\ ~GwRead(gw[s.ip], q.unit, q.addr).ok) =>
                    ~CacheGet(data_cache, CacheKey(ip, q.unit, q.addr, q.count), now).hit)
    /\ [][\A t \in Threads :
            LET q == Req(th[t])
            IN  (th[t].kind = "export" /\ th[t].inflight /\ ~th'[t].inflight
                 /\ ~GwRead(gw[th[t].ip], q.unit, q.addr).ok) =>
                    data_cache' = data_cache]_vars

\* a run ended whose RFID read failed, and the next run has issued the
\* request for the RFID block again
C29_Witness ==
    \E t1, t2 \in ExportThreads :
        /\ Ended(t1) /\ th[t1].ret = "data" /\ th[t1].data[1].RFID = <<>>
        /\ ~Answer(gw[DefaultIp], 10, 31026).ok
        /\ th[t2].inflight /\ th[t2].pc = "rfid" /\ th[t2].idx = 1
        /\ data_cache.cache # <<>>

\* ------------------------------------------------------ several gateways
\* the gateway addresses the user may enter: one more than the pool holds
Ips == {DefaultIp, "10.0.1.111", "10.0.1.112", "10.0.1.113", "10.0.1.114",
        "10.0.1.115"}

\* the state after construction with the gateways drawn from G (functions
\* from addresses to gateways) and the network from R
InitGateways(G, R) ==
    /\ gw \in G
    /\ reachable \in R
    /\ now = 0
    /\ connection_pool = [pool |-> <<>>, max_connections |-> PoolMaxConnections]
    /\ clients = <<>>
    /\ data_cache = [cache |-> <<>>, max_size |-> CacheMaxSize, ttl |-> CacheTtl]
    /\ ip_entry = DefaultIp
    /\ enhanced_diagnostics_var = FALSE
    /\ is_running = FALSE
    /\ start_btn = "normal"
    /\ live_diagnostics_enabled = FALSE
    /\ live_table = <<>>
    /\ root = "alive"
    /\ th = [t \in Threads |-> IdleThread]

\* the user types another address of ips into the IP field while no worker
\* runs
SetIp(ips) ==
    /\ root # "destroyed"
    /\ NoThreadActive
    /\ \E ip \in ips \ {ip_entry} : ip_entry' = ip
    /\ UNCHANGED << envVars, connection_pool, clients, data_cache,
                    enhanced_diagnostics_var, is_running, start_btn,
                    live_diagnostics_enabled, live_table, root, th >>

\* a worker thread that returned is gone, and its locals with it
ThreadGone(t) ==
    LET threads == [th EXCEPT ![t] = IdleThread]
    IN  /\ th[t].pc = "done"
        /\ th' = threads
        /\ clients' = Collect(clients, connection_pool, threads)
        /\ UNCHANGED << envVars, guiVars, connection_pool, data_cache >>

\* six gateways that accept the connection and answer every discovery read
\* with an error, all of them reachable or all but one;
\* export runs one after the other, against any of them, the next one after
\* the thread of the last is gone
InitPool ==
    InitGateways({[ip \in Ips |-> Gateway([k \in 1..MaxDevices |-> None], <<>>)]},
                 {Ips, Ips \ {"10.0.1.115"}})

NextPool ==
    \/ SetIp(Ips) /\ \A t \in Threads : th[t].pc # "done"
    \/ NextRun /\ \A t \in Threads : th[t].pc # "done"
    \/ \E t \in Threads : ThreadGone(t)

SpecPool == InitPool /\ [][NextPool]_vars

\* C27: after any sequence of export runs against any gateways,
\* get_connection for a reachable gateway returns a connected client: a run
\* is left without a connection only when the gateway is unreachable, never
\* because of the entries earlier runs left in the pool.
C27_PoolServesReachableGateway ==
    \A t \in ExportThreads :
        (th[t].pc = "report" /\ th[t].client = 0) => th[t].ip \notin reachable

\* two gateways with the same device address paired: a CL110 at the first, a
\* TH110 with another RFID at the second
OtherIp == "10.0.1.111"
TwoGateways ==
    (DefaultIp :> Gateway(Slots(<<Some(<<10>>)>>), (10 :> DeviceAnswers(RegsCL110))))
    @@ (OtherIp :> Gateway(Slots(<<Some(<<10>>)>>),
                           (10 :> Override(DeviceAnswers(RegsTH110), 31026,
                                           Some(<<4660, 22136, 0, 0, 0, 0>>)))))

\* export runs and live diagnostics, one worker after the other, against
\* either gateway
InitTwoGateways == InitGateways({TwoGateways}, {{DefaultIp, OtherIp}})

NextTwoGateways ==
    \/ SetIp({DefaultIp, OtherIp})
    \/ NextPaths

SpecTwoGateways == InitTwoGateways /\ [][NextTwoGateways]_vars

\* C26: a read directed at one gateway never returns words read from another
\* one: what the cache hands to a worker is what the worker's own gateway
\* answers, and every record shows the type and the RFID of the device at its
\* own gateway, for pool clients and for the clients of the live path alike.
C26_ReadsStayWithTheirGateway ==
    /\ \A t \in Threads :
           LET s == th[t]
               q == Req(s)
               c == clients[s.client]
               g == CacheGet(data_cache, CacheKey(c.cached_ip, q.unit, q.addr, q.count),
                             now)
           IN  (s.client # 0 /\ s.pc \in ReadPcs /\ ~s.inflight /\ g.hit) =>
                   g.data = GwRead(gw[s.ip], q.unit, q.addr).regs
    /\ \A t \in Threads : \A k \in 1..Len(th[t].data) :
           /\ th[t].data[k].DeviceType =
                  TypeOfReference(DecodedRef(gw[th[t].ip], th[t].data[k].DeviceID))
           /\ th[t].data[k].RFID =
                  RfidHex(Answer(gw[th[t].ip], th[t].data[k].DeviceID, 31026).regs)

====
